---- MODULE Spec2Model ----
(***************************************************************************)
(* A model of server.py: the coverage-gated commit pipeline of the testing *)
(* agent (coverage aggregation, commit gate, staging filter, push          *)
(* negotiator).  Each tool handler is one action; the external tools       *)
(* reached through _run_cmd answer nondeterministically.                   *)
(***************************************************************************)
EXTENDS Integers, Sequences, FiniteSets, TLC

\* Largest missed/covered value of a generated LINE counter.
MaxCount == 2
\* Largest number of lines in the output of `git status --porcelain`.
MaxLines == 2

(***************************************************************************)
(* Small helpers                                                           *)
(***************************************************************************)
RECURSIVE GCD(_, _)
GCD(a, b) == IF b = 0 THEN a ELSE GCD(b, a % b)

\* A Python value that may be None: <<>> is None, <<v>> is the value v.
None == <<>>
Some(v) == <<v>>
IsNone(o) == Len(o) = 0
Val(o) == o[1]

(***************************************************************************)
(* The JaCoCo report as xml.etree sees it                                  *)
(***************************************************************************)
\* An attribute of a <counter>: an integer literal, absent (get() gives
\* None), or text that int() rejects.
IntAttr(n) == [text |-> "int", val |-> n]
MissingAttr == [text |-> "absent", val |-> 0]
BadAttr == [text |-> "nonint", val |-> 0]

Counter(ty, m, c) == [type |-> ty, missed |-> m, covered |-> c]
LineCounter(m, c) == Counter("LINE", IntAttr(m), IntAttr(c))

\* (missed, covered) of the LINE counters the model generates for a class;
\* <<15, 85>> is the pair of the commit-gate examples; 29 / 50 * 100.0 is
\* the double below 58.
LinePairs == ((0 .. MaxCount) \X (0 .. MaxCount)) \cup {<<15, 85>>, <<21, 29>>}

\* The <counter> children of a <class>: none, or a BRANCH counter followed by
\* a LINE counter that is well formed or has an attribute int() cannot read.
ClassCounterLists ==
    {<<>>}
    \cup {<<Counter("BRANCH", IntAttr(1), IntAttr(1)), LineCounter(p[1], p[2])>> : p \in LinePairs}
    \cup {<<Counter("LINE", MissingAttr, IntAttr(1))>>,
          <<Counter("LINE", IntAttr(1), BadAttr)>>}

ClassElem(n, cs) == [name |-> n, counters |-> cs]

\* The <class> children of the one <package>: none, Foo, or Foo and Bar.
ClassLists ==
    {<<>>}
    \cup {<<ClassElem("com/example/Foo", a)>> : a \in ClassCounterLists}
    \cup {<<ClassElem("com/example/Foo", a), ClassElem("com/example/Bar", b)>> :
            a \in ClassCounterLists, b \in ClassCounterLists}

AttrInt(a) == IF a.text = "int" THEN a.val ELSE 0

RECURSIVE SumLine(_, _)
\* Sum of attribute `which` over the LINE counters of a counter list.
SumLine(cs, which) ==
    IF cs = <<>> THEN 0
    ELSE (IF Head(cs).type = "LINE"
          THEN AttrInt(IF which = "missed" THEN Head(cs).missed ELSE Head(cs).covered)
          ELSE 0) + SumLine(Tail(cs), which)

RECURSIVE ClassCounters(_)
\* The <counter> elements under the classes, in document order.
ClassCounters(classes) ==
    IF classes = <<>> THEN <<>>
    ELSE Head(classes).counters \o ClassCounters(Tail(classes))

\* JaCoCo repeats the totals of the children as counters of the enclosing
\* <package> and <report> (rollup); a report without them carries counters at
\* class granularity only.
RollupCounter(classes) ==
    LineCounter(SumLine(ClassCounters(classes), "missed"),
                SumLine(ClassCounters(classes), "covered"))

XmlReport(classes, rollup) ==
    [kind |-> "xml",
     packages |-> <<[name |-> "com/example",
                     classes |-> classes,
                     counters |-> IF rollup THEN <<RollupCounter(classes)>> ELSE <<>>]>>,
     counters |-> IF rollup THEN <<RollupCounter(classes)>> ELSE <<>>]

\* A file given by its text, a sequence of characters over "<", ">", "/",
\* blank, newline and the letters a-z: tags without attributes.  When the
\* text parses, its elements carry no <counter> with a type and no <package>.
TextReport(text) == [kind |-> "text", text |-> text, packages |-> <<>>, counters |-> <<>>]

\* "", "<<<", "<report>", "<report><a></report>", "<a>" newline "</b>", and
\* "<report></report>", which parses
ReportTexts ==
    {<<>>,
     <<"<", "<", "<">>,
     <<"<", "r", "e", "p", "o", "r", "t", ">">>,
     <<"<", "r", "e", "p", "o", "r", "t", ">", "<", "a", ">",
       "<", "/", "r", "e", "p", "o", "r", "t", ">">>,
     <<"<", "a", ">", "\n", "<", "/", "b", ">">>,
     <<"<", "r", "e", "p", "o", "r", "t", ">", "<", "/", "r", "e", "p", "o", "r", "t", ">">>}

\* What may be found at the report path: nothing, a file given by its text,
\* or a report tree.
AbsentReport == [kind |-> "absent", packages |-> <<>>, counters |-> <<>>]
Reports ==
    {AbsentReport}
    \cup {TextReport(t) : t \in ReportTexts}
    \cup {XmlReport(cl, r) : cl \in ClassLists, r \in BOOLEAN}

RECURSIVE PackageCounters(_)
PackageCounters(pkgs) ==
    IF pkgs = <<>> THEN <<>>
    ELSE ClassCounters(Head(pkgs).classes) \o Head(pkgs).counters
         \o PackageCounters(Tail(pkgs))

\* root.findall('.//counter'): every <counter> below the root, document order.
FindAllCounters(report) == PackageCounters(report.packages) \o report.counters

(***************************************************************************)
(* ET.parse: the error of the expat parser on a text, "" when it parses.   *)
(* Positions are 1-based indices into the text; expat reports the line     *)
(* (from 1) and the column (from 0) of the offending position.             *)
(***************************************************************************)
NameChars ==
    {"a", "b", "c", "d", "e", "f", "g", "h", "i", "j", "k", "l", "m",
     "n", "o", "p", "q", "r", "s", "t", "u", "v", "w", "x", "y", "z"}
XmlSpace == {" ", "\n"}

\* the first position from p on that holds no character of `chars`
SkipWhile(text, p, chars) ==
    CHOOSE q \in p .. Len(text) + 1 :
        /\ \A i \in p .. q - 1 : text[i] \in chars
        /\ q = Len(text) + 1 \/ text[q] \notin chars

\* str(e) of the ParseError raised at position p
ParseErrorAt(reason, text, p) ==
    LET before == {i \in 1 .. p - 1 : text[i] = "\n"}
        start == IF before = {} THEN 0 ELSE CHOOSE i \in before : \A j \in before : j <= i
    IN reason \o ": line " \o ToString(1 + Cardinality(before))
              \o ", column " \o ToString(p - 1 - start)

InvalidToken(text, p) == [tok |-> "invalid", next |-> p, name |-> <<>>]
PartialToken(text, p) == [tok |-> "partial", next |-> p, name |-> <<>>]

\* The token of the prolog (and of the epilog) that starts at p <= Len(text).
PrologTok(text, p) ==
    LET c == text[p] IN
    IF c \in XmlSpace THEN [tok |-> "space", next |-> SkipWhile(text, p, XmlSpace), name |-> <<>>]
    ELSE IF c = "<"
    THEN IF p = Len(text) THEN PartialToken(text, p)
         ELSE IF text[p + 1] \in NameChars THEN [tok |-> "start", next |-> p, name |-> <<>>]
         ELSE InvalidToken(text, p + 1)
    ELSE IF c = ">" THEN [tok |-> "close", next |-> p + 1, name |-> <<>>]
    ELSE IF c \in NameChars
    THEN LET q == SkipWhile(text, p, NameChars) IN
         IF q = Len(text) + 1 \/ text[q] \in XmlSpace \/ text[q] = ">"
         THEN [tok |-> "name", next |-> q, name |-> <<>>]
         ELSE InvalidToken(text, q)
    ELSE InvalidToken(text, p)

\* The token of the content that starts at p <= Len(text): character data, a
\* start tag, an empty-element tag or an end tag.
ContentTok(text, p) ==
    LET n == Len(text) IN
    IF text[p] # "<"
    THEN [tok |-> "data", next |-> SkipWhile(text, p, {text[i] : i \in p .. n} \ {"<"}),
          name |-> <<>>]
    ELSE IF p = n THEN PartialToken(text, p)
    ELSE IF text[p + 1] = "/"
    THEN IF p + 1 = n THEN PartialToken(text, p)
         ELSE IF text[p + 2] \notin NameChars THEN InvalidToken(text, p + 2)
         ELSE LET e == SkipWhile(text, p + 2, NameChars)
                  q == SkipWhile(text, e, XmlSpace)
              IN IF q = n + 1 THEN PartialToken(text, p)
                 ELSE IF text[q] = ">"
                 THEN [tok |-> "end", next |-> q + 1, name |-> SubSeq(text, p + 2, e - 1)]
                 ELSE InvalidToken(text, q)
    ELSE IF text[p + 1] \notin NameChars THEN InvalidToken(text, p + 1)
    ELSE LET e == SkipWhile(text, p + 1, NameChars)
             name == SubSeq(text, p + 1, e - 1)
             q == SkipWhile(text, e, XmlSpace)
         IN IF q = n + 1 THEN PartialToken(text, p)
            ELSE IF q > e /\ text[q] \in NameChars
            THEN \* an attribute name, which no "=" follows
                 LET a == SkipWhile(text, SkipWhile(text, q, NameChars), XmlSpace)
                 IN IF a = n + 1 THEN PartialToken(text, p) ELSE InvalidToken(text, a)
            ELSE IF text[q] = ">" THEN [tok |-> "open", next |-> q + 1, name |-> name]
            ELSE IF text[q] = "/"
            THEN IF q = n THEN PartialToken(text, p)
                 ELSE IF text[q + 1] = ">" THEN [tok |-> "empty", next |-> q + 2, name |-> name]
                 ELSE InvalidToken(text, q + 1)
            ELSE InvalidToken(text, q)

RECURSIVE Epilog(_, _)
\* after the end of the document element
Epilog(text, p) ==
    IF p = Len(text) + 1 THEN ""
    ELSE LET t == PrologTok(text, p) IN
         CASE t.tok = "space" -> Epilog(text, t.next)
           [] t.tok = "invalid" -> ParseErrorAt("not well-formed (invalid token)", text, t.next)
           [] t.tok = "partial" -> ParseErrorAt("unclosed token", text, p)
           [] OTHER -> ParseErrorAt("junk after document element", text, p)

RECURSIVE Content(_, _, _)
\* inside the document element, `open` the names of the elements not yet
\* closed, innermost first
Content(text, p, open) ==
    IF p = Len(text) + 1 THEN ParseErrorAt("no element found", text, p)
    ELSE LET t == ContentTok(text, p) IN
         CASE t.tok = "invalid" -> ParseErrorAt("not well-formed (invalid token)", text, t.next)
           [] t.tok = "partial" -> ParseErrorAt("unclosed token", text, p)
           [] t.tok = "data" -> Content(text, t.next, open)
           [] t.tok = "open" -> Content(text, t.next, <<t.name>> \o open)
           [] t.tok = "empty" ->
                IF open = <<>> THEN Epilog(text, t.next) ELSE Content(text, t.next, open)
           [] OTHER ->
                IF Head(open) # t.name THEN ParseErrorAt("mismatched tag", text, p + 2)
                ELSE IF Tail(open) = <<>> THEN Epilog(text, t.next)
                ELSE Content(text, t.next, Tail(open))

RECURSIVE Prolog(_, _)
\* before the document element
Prolog(text, p) ==
    IF p = Len(text) + 1 THEN ParseErrorAt("no element found", text, p)
    ELSE LET t == PrologTok(text, p) IN
         CASE t.tok = "space" -> Prolog(text, t.next)
           [] t.tok = "invalid" -> ParseErrorAt("not well-formed (invalid token)", text, t.next)
           [] t.tok = "partial" -> ParseErrorAt("unclosed token", text, p)
           [] t.tok = "start" -> Content(text, p, <<>>)
           [] OTHER -> ParseErrorAt("syntax error", text, p)

\* str(e) for the ParseError ET.parse raises on a text, "" when it parses
ExpatError(text) == Prolog(text, 1)

\* the error ET.parse raises on what lies at the report path
ParseError(report) == IF report.kind = "text" THEN ExpatError(report.text) ELSE ""

(***************************************************************************)
(* _compute_jacoco_coverage                                                *)
(***************************************************************************)
\* int(counter.get(...)): the error it raises, "" when it parses.
IntError(a) ==
    CASE a.text = "int" -> ""
      [] a.text = "absent" -> "int() argument must be a string, a bytes-like object or a real number, not 'NoneType'"
      [] OTHER -> "invalid literal for int() with base 10: 'x'"

RECURSIVE SumCounters(_, _, _)
\* The loop over the counters: the totals, or the first exception raised.
SumCounters(cs, missed, covered) ==
    IF cs = <<>> THEN [err |-> "", missed |-> missed, covered |-> covered]
    ELSE LET c == Head(cs) IN
         IF c.type # "LINE" THEN SumCounters(Tail(cs), missed, covered)
         ELSE IF IntError(c.missed) # "" THEN [err |-> IntError(c.missed), missed |-> 0, covered |-> 0]
         ELSE IF IntError(c.covered) # "" THEN [err |-> IntError(c.covered), missed |-> 0, covered |-> 0]
         ELSE SumCounters(Tail(cs), missed + c.missed.val, covered + c.covered.val)

(***************************************************************************)
(* Python floats: IEEE 754 doubles, computed bit for bit.  A double is      *)
(* [mant, exp]: mant is a natural number written in base LimbBase, most     *)
(* significant limb first (five limbs, the first not reduced), and the      *)
(* value is mant / 2^exp.  The operators are exact for 0 <= covered <=      *)
(* total < 2^16.                                                            *)
(***************************************************************************)
\* 2^13: five limbs hold the 53 bits of a mantissa as 1 + 4 * 13.
LimbBase == 8192
\* the bits of a mantissa below its leading bit
FractionBits == 52

RECURSIVE Pow2(_)
Pow2(n) == IF n = 0 THEN 1 ELSE 2 * Pow2(n - 1)

RECURSIVE BitLen(_)
\* int.bit_length()
BitLen(n) == IF n = 0 THEN 0 ELSE 1 + BitLen(n \div 2)

RECURSIVE AddLow(_, _)
\* mant + n, the carry running up the limbs
AddLow(limbs, n) ==
    IF Len(limbs) = 1 THEN <<limbs[1] + n>>
    ELSE LET v == limbs[Len(limbs)] + n
         IN AddLow(SubSeq(limbs, 1, Len(limbs) - 1), v \div LimbBase) \o <<v % LimbBase>>

RECURSIVE MulCarry(_, _, _)
MulCarry(limbs, n, carry) ==
    IF Len(limbs) = 1 THEN <<limbs[1] * n + carry>>
    ELSE LET v == limbs[Len(limbs)] * n + carry
         IN MulCarry(SubSeq(limbs, 1, Len(limbs) - 1), n, v \div LimbBase) \o <<v % LimbBase>>

\* mant * n for a small natural n
MulSmall(limbs, n) == MulCarry(limbs, n, 0)

\* the limbs below the first are all zero
LowZero(limbs) == \A i \in 2 .. Len(limbs) : limbs[i] = 0

RECURSIVE DivLimbs(_, _, _)
\* n more limbs of the quotient by long division, and the last remainder
DivLimbs(r, total, n) ==
    IF n = 0 THEN [limbs |-> <<>>, rem |-> r]
    ELSE LET rest == DivLimbs((r * LimbBase) % total, total, n - 1)
         IN [limbs |-> <<(r * LimbBase) \div total>> \o rest.limbs, rem |-> rest.rem]

RECURSIVE Scale(_, _)
\* the least k with covered * 2^k >= total
Scale(covered, total) == IF covered >= total THEN 0 ELSE 1 + Scale(2 * covered, total)

RECURSIVE HalveCarry(_, _)
HalveCarry(limbs, carry) ==
    IF limbs = <<>> THEN <<>>
    ELSE LET v == carry * LimbBase + Head(limbs)
         IN <<v \div 2>> \o HalveCarry(Tail(limbs), v % 2)

RECURSIVE Canon(_)
\* The one way a value is written: the least exp >= FractionBits that keeps
\* mant whole.
Canon(x) ==
    IF x.exp > FractionBits /\ x.mant[5] % 2 = 0
    THEN Canon([mant |-> HalveCarry(x.mant, 0), exp |-> x.exp - 1])
    ELSE x

DoubleZero == [mant |-> <<0, 0, 0, 0, 0>>, exp |-> FractionBits]

\* the double of a natural number below 2^31
DoubleOfInt(n) == [mant |-> <<n, 0, 0, 0, 0>>, exp |-> FractionBits]

\* covered / total for ints: the quotient rounded to 53 bits, ties to even
DoubleDiv(covered, total) ==
    IF covered = 0 THEN DoubleZero
    ELSE LET k == Scale(covered, total)
             first == covered * Pow2(k)
             rest == DivLimbs(first % total, total, 4)
             q == <<first \div total>> \o rest.limbs
             up == \/ 2 * rest.rem > total
                   \/ (2 * rest.rem = total /\ q[5] % 2 = 1)
         IN Canon([mant |-> IF up THEN AddLow(q, 1) ELSE q, exp |-> k + FractionBits])

\* x * n for a double x and a small natural n given as a float (100.0): the
\* product rounded to 53 bits, ties to even
DoubleMul(x, n) ==
    LET p == MulSmall(x.mant, n)
        d == IF p[1] = 0 THEN 0 ELSE BitLen(p[1]) - 1
        low == p[5] % Pow2(d)
        up == d > 0 /\ (\/ 2 * low > Pow2(d)
                        \/ (2 * low = Pow2(d) /\ (p[5] \div Pow2(d)) % 2 = 1))
        down == [p EXCEPT ![5] = p[5] - low]
    IN Canon([mant |-> IF up THEN AddLow(down, Pow2(d)) ELSE down, exp |-> x.exp])

\* x < t and x > t for a double x and a natural t given as a float
DoubleLess(x, t) == x.mant[1] < t * Pow2(x.exp - FractionBits)
DoubleGreater(x, t) ==
    \/ x.mant[1] > t * Pow2(x.exp - FractionBits)
    \/ (x.mant[1] = t * Pow2(x.exp - FractionBits) /\ ~LowZero(x.mant))


\* Percent counting a report without lines as fully covered.
Percent_FullWhenEmpty(covered, total) ==
    IF total > 0 THEN DoubleMul(DoubleDiv(covered, total), 100)
    ELSE DoubleMul(DoubleDiv(1, 1), 100)

\* percent = covered / total * 100.0 when total > 0, else 0.0
Percent(covered, total) ==
    IF total > 0 THEN DoubleMul(DoubleDiv(covered, total), 100) ELSE DoubleZero

ComputeJacocoCoverage(path, report) ==
    IF report.kind = "absent"
    THEN [ok |-> FALSE, msg |-> "File not found: " \o path]
    ELSE IF ParseError(report) # ""
    THEN [ok |-> FALSE, msg |-> ParseError(report)]
    ELSE LET s == SumCounters(FindAllCounters(report), 0, 0) IN
         IF s.err # "" THEN [ok |-> FALSE, msg |-> s.err]
         ELSE [ok |-> TRUE,
               percent |-> Percent(s.covered, s.missed + s.covered),
               covered |-> s.covered,
               missed |-> s.missed]

(***************************************************************************)
(* Formatting                                                              *)
(***************************************************************************)
\* The value of f"{percent:.2f}" in hundredths: the hundredth nearest to the
\* exact value of the double, ties to even.
Hundredths(p) ==
    LET w == MulSmall(p.mant, 200)
        unit == Pow2(p.exp - FractionBits)
        n == w[1] \div unit
        exact == w[1] % unit = 0 /\ LowZero(w)
        q == n \div 2
    IN IF n % 2 = 1 /\ (~exact \/ q % 2 = 1) THEN q + 1 ELSE q

\* f"{percent:.2f}"
Fmt2(p) ==
    LET h == Hundredths(p) IN
    ToString(h \div 100) \o "." \o ToString((h % 100) \div 10) \o ToString(h % 10)

\* str() of a float with an integral value, as in f"{coverage_threshold}"
FloatStr(t) == ToString(t) \o ".0"

(***************************************************************************)
(* Text as Python sees it: a line is a sequence of characters              *)
(***************************************************************************)
\* The characters str.strip() removes and str.isspace() accepts.  A character
\* is a one-character string; one that a TLA+ string cannot hold is written
\* by its code point, "U+000B".
Whitespace ==
    {"\t", "\n", "U+000B", "\f", "\r", "U+001C", "U+001D", "U+001E",
     "U+001F", " ", "U+0085", "U+00A0", "U+1680", "U+2000", "U+2001",
     "U+2002", "U+2003", "U+2004", "U+2005", "U+2006", "U+2007", "U+2008",
     "U+2009", "U+200A", "U+2028", "U+2029", "U+202F", "U+205F", "U+3000"}

\* not ln.strip()
IsBlank(ln) == \A i \in 1 .. Len(ln) : ln[i] \in Whitespace


\* NonBlankLines without the `if l.strip()` filter.
NonBlankLines_Unfiltered(lines) == lines

RECURSIVE NonBlankLines(_)
\* [l for l in stdout.splitlines() if l.strip()], stdout given by its lines
NonBlankLines(lines) ==
    IF lines = <<>> THEN <<>>
    ELSE IF IsBlank(Head(lines)) THEN NonBlankLines(Tail(lines))
    ELSE <<Head(lines)>> \o NonBlankLines(Tail(lines))

(***************************************************************************)
(* The process boundary: one event per _run_cmd call, and one per call of  *)
(* _compute_jacoco_coverage                                                *)
(***************************************************************************)
RunEvent(argv) == [kind |-> "run", argv |-> argv, paths |-> <<>>]
RunWithPaths(argv, paths) == [kind |-> "run", argv |-> argv, paths |-> paths]
CoverageEvent(path) == [kind |-> "coverage", argv |-> <<path>>, paths |-> <<>>]

IsCommit(e) == e.kind = "run" /\ Len(e.argv) >= 2 /\ e.argv[1] = "git" /\ e.argv[2] = "commit"
IsPush(e) == e.kind = "run" /\ Len(e.argv) >= 2 /\ e.argv[1] = "git" /\ e.argv[2] = "push"
IsAdd(e) == e.kind = "run" /\ Len(e.argv) >= 2 /\ e.argv[1] = "git" /\ e.argv[2] = "add"

\* What an external command may answer; stdout and stderr are given by their
\* lines.
Succeeded == [returncode |-> 0, stdout |-> <<"done">>, stderr |-> <<>>]
Failed == [returncode |-> 1, stdout |-> <<>>, stderr |-> <<"fatal: failed">>]
RunResults == {Succeeded, Failed}

\* A handler ends by returning a dict or by raising.
Returned(tr, res) == [trace |-> tr, result |-> res]
Raised(tr, exc) == [trace |-> tr, result |-> [raised |-> exc]]
HasRaised(res) == "raised" \in DOMAIN res

(***************************************************************************)
(* git_commit                                                              *)
(***************************************************************************)
\* `if include_coverage and jacoco_xml`: None and "" are both falsy
GateRequested(include_coverage, jacoco_xml) ==
    include_coverage /\ ~IsNone(jacoco_xml) /\ Val(jacoco_xml) # ""


\* CoverageMessage reading the key 'total', which the aggregate does not have.
CoverageMessage_NoTotal(message, cov) ==
    message \o " | Coverage: " \o Fmt2(cov.percent) \o "% ("
            \o ToString(cov.covered) \o "/None)"

\* the message of a successful aggregation
CoverageMessage(message, cov) ==
    message \o " | Coverage: " \o Fmt2(cov.percent) \o "% ("
            \o ToString(cov.covered) \o "/" \o ToString(cov.covered + cov.missed) \o ")"


\* BelowThreshold with the comparison inverted.
BelowThreshold_Inverted(percent, coverage_threshold) ==
    /\ ~IsNone(coverage_threshold)
    /\ DoubleGreater(percent, Val(coverage_threshold))

\* `coverage_threshold is not None and percent < coverage_threshold`
BelowThreshold(percent, coverage_threshold) ==
    /\ ~IsNone(coverage_threshold)
    /\ DoubleLess(percent, Val(coverage_threshold))

\* the `git commit -m` call and the dict built from its answer
DoCommit(tr, std_msg, coverage_info, commit_res) ==
    Returned(tr \o <<RunEvent(<<"git", "commit", "-m", std_msg>>)>>,
             [ok |-> commit_res.returncode = 0,
              stdout |-> commit_res.stdout,
              stderr |-> commit_res.stderr,
              coverage |-> coverage_info])

\* The branch taken when aggregation fails: the message is set to
\* "... | Coverage: unknown (...)" and the next statement then reads the local
\* `percent`, which this branch never assigned: UnboundLocalError.
CoverageUnknown(tr, message, cov, commit_res) ==
    Raised(tr, "UnboundLocalError")

git_commit(message, include_coverage, jacoco_xml, coverage_threshold, env) ==
    LET staged == NonBlankLines(env.staged_stdout)
        t1 == <<RunEvent(<<"git", "diff", "--name-only", "--cached">>)>>
    IN
    IF staged = <<>>
    THEN Returned(t1, [ok |-> FALSE, msg |-> "No staged changes to commit."])
    ELSE IF GateRequested(include_coverage, jacoco_xml)
    THEN LET cov == ComputeJacocoCoverage(Val(jacoco_xml), env.report)
             t2 == t1 \o <<CoverageEvent(Val(jacoco_xml))>>
         IN
         IF cov.ok
         THEN IF BelowThreshold(cov.percent, coverage_threshold)
              THEN Returned(t2,
                     [ok |-> FALSE,
                      msg |-> "Coverage " \o Fmt2(cov.percent) \o "% below threshold "
                              \o FloatStr(Val(coverage_threshold)) \o "% - aborting commit.",
                      coverage |-> cov])
              ELSE DoCommit(t2, CoverageMessage(message, cov), Some(cov), env.commit)
         ELSE CoverageUnknown(t2, message, cov, env.commit)
    ELSE DoCommit(t1, message, None, env.commit)

\* The inputs of git_commit.
Messages == {"fix parser"}
JacocoPaths == {None, Some(""), Some("target/site/jacoco/jacoco.xml")}
Thresholds == {None, Some(0), Some(50), Some(58), Some(90), Some(100)}
StagedOutputs ==
    {<<>>,
     <<<<" ">>>>,
     <<<<"\f">>>>,
     <<<<"s", "r", "c", "/", "A", ".", "j", "a", "v", "a">>>>,
     <<<<>>, <<"s", "r", "c", "/", "A", ".", "j", "a", "v", "a">>>>}

(***************************************************************************)
(* git_push                                                                *)
(***************************************************************************)
RECURSIVE LStrip(_)
LStrip(s) == IF s # <<>> /\ Head(s) \in Whitespace THEN LStrip(Tail(s)) ELSE s

RECURSIVE RStrip(_)
RStrip(s) ==
    IF s # <<>> /\ s[Len(s)] \in Whitespace THEN RStrip(SubSeq(s, 1, Len(s) - 1)) ELSE s

\* str.strip()
Strip(s) == RStrip(LStrip(s))


\* BranchName without the strip().
BranchName_Unstripped(stdout) == IF IsNone(stdout) THEN <<>> ELSE Val(stdout)

\* (br.get("stdout") or "").strip()
BranchName(stdout) == IF IsNone(stdout) THEN <<>> ELSE Strip(Val(stdout))

\* `if not branch`
BranchUnknown(branch) == branch = <<>>


\* PushSucceeded testing for the exit status 1 only.
PushSucceeded_NotOne(push_res) == push_res.returncode # 1

\* `if push_res.get("returncode") == 0`
PushSucceeded(push_res) == push_res.returncode = 0

\* The branch is the trailing argument of both push commands.
PlainPush(remote, branch) == RunWithPaths(<<"git", "push", remote>>, <<branch>>)
UpstreamPush(remote, branch) == RunWithPaths(<<"git", "push", "-u", remote>>, <<branch>>)
IsUpstreamPush(e) == IsPush(e) /\ Len(e.argv) = 4 /\ e.argv[3] = "-u"
IsPlainPush(e) == IsPush(e) /\ Len(e.argv) = 3

\* the dict built from the answer of the push that ran last
PushResult(ok, res, branch) ==
    [ok |-> ok, stdout |-> res.stdout, stderr |-> res.stderr, branch |-> branch]

git_push(remote, env) ==
    LET branch == BranchName(env.branch_stdout)
        t1 == <<RunEvent(<<"git", "rev-parse", "--abbrev-ref", "HEAD">>)>>
        t2 == t1 \o <<PlainPush(remote, branch)>>
        t3 == t2 \o <<UpstreamPush(remote, branch)>>
    IN
    IF BranchUnknown(branch)
    THEN Returned(t1, [ok |-> FALSE, msg |-> "Cannot determine current branch."])
    ELSE IF PushSucceeded(env.push)
    THEN Returned(t2, PushResult(TRUE, env.push, branch))
    ELSE Returned(t3, PushResult(env.push_up.returncode = 0, env.push_up, branch))

\* The inputs of git_push.
Remotes == {"origin", "fork"}
BranchOutputs ==
    {None,
     Some(<<>>),
     Some(<<"\n">>),
     Some(<<" ", "\n">>),
     Some(<<"m", "a", "i", "n", "\n">>),
     Some(<<"\f", "\n">>),
     Some(<<"m", "a", "i", "n", "\f", "\n">>),
     Some(<<"H", "E", "A", "D", "\n">>),
     Some(<<"f", "e", "a", "t", "/", "x">>)}
PlainPushResults ==
    {[returncode |-> 0, stdout |-> <<>>, stderr |-> <<"Everything up-to-date">>],
     [returncode |-> 1, stdout |-> <<>>, stderr |-> <<"! [rejected] (non-fast-forward)">>],
     [returncode |-> 128, stdout |-> <<"hint: see push.autoSetupRemote">>,
      stderr |-> <<"fatal: The current branch has no upstream branch.">>]}
UpstreamPushResults ==
    {[returncode |-> 0, stdout |-> <<"branch set up to track">>, stderr |-> <<"To origin">>],
     [returncode |-> 1, stdout |-> <<>>, stderr |-> <<"! [rejected] (non-fast-forward)">>],
     [returncode |-> 128, stdout |-> <<>>, stderr |-> <<"fatal: Authentication failed">>]}

(***************************************************************************)
(* git_add_all                                                             *)
(***************************************************************************)
\* The printable ASCII characters in code point order, from U+0020 (the
\* grave accent, which a TLA+ string cannot hold, by its code point).
AsciiPrintable ==
    <<
      " ", "!", "\"", "#", "$", "%", "&", "'", "(", ")", "*", "+",
      ",", "-", ".", "/", "0", "1", "2", "3", "4", "5", "6", "7",
      "8", "9", ":", ";", "<", "=", ">", "?", "@", "A", "B", "C",
      "D", "E", "F", "G", "H", "I", "J", "K", "L", "M", "N", "O",
      "P", "Q", "R", "S", "T", "U", "V", "W", "X", "Y", "Z", "[",
      "\\", "]", "^", "_", "U+0060", "a", "b", "c", "d", "e", "f", "g",
      "h", "i", "j", "k", "l", "m", "n", "o", "p", "q", "r", "s",
      "t", "u", "v", "w", "x", "y", "z", "{", "|", "}", "~"
    >>

\* ord(c), for the characters of the patterns and names modelled
Ord(c) ==
    CASE c = "\t" -> 9
      [] c = "\n" -> 10
      [] c = "\f" -> 12
      [] c = "\r" -> 13
      [] \E i \in DOMAIN AsciiPrintable : AsciiPrintable[i] = c ->
            31 + (CHOOSE i \in DOMAIN AsciiPrintable : AsciiPrintable[i] = c)

RECURSIVE FindChar(_, _, _)
\* the first index >= k of s that holds c, 0 when there is none
FindChar(s, c, k) ==
    IF k > Len(s) THEN 0 ELSE IF s[k] = c THEN k ELSE FindChar(s, c, k + 1)

\* The index in pat of the `]` that closes the bracket opened at pat[1], 0
\* when it is not closed: a leading `!` and a `]` right after it are skipped.
ClassEnd(pat) ==
    LET j1 == IF Len(pat) >= 2 /\ pat[2] = "!" THEN 3 ELSE 2
        j2 == IF j1 <= Len(pat) /\ pat[j1] = "]" THEN j1 + 1 ELSE j1
    IN FindChar(pat, "]", j2)

RECURSIVE SplitChunks(_, _, _)
\* The text between the brackets cut at the hyphens that stand for a range,
\* looked for from index k; a hyphen that ends the text stays in its chunk.
SplitChunks(stuff, start, k) ==
    LET p == FindChar(stuff, "-", k) IN
    IF p = 0 \/ p = Len(stuff) THEN <<SubSeq(stuff, start, Len(stuff))>>
    ELSE <<SubSeq(stuff, start, p - 1)>> \o SplitChunks(stuff, p + 1, p + 3)

RECURSIVE RemoveEmptyRanges(_, _)
\* "Remove empty ranges": from the last pair of chunks down to the first, a
\* range whose start is above its end goes, both end characters with it.
RemoveEmptyRanges(chunks, k) ==
    IF k < 2 THEN chunks
    ELSE LET lo == chunks[k - 1]
             hi == chunks[k]
         IN IF Ord(lo[Len(lo)]) > Ord(hi[1])
            THEN RemoveEmptyRanges(
                    SubSeq(chunks, 1, k - 2)
                    \o <<SubSeq(lo, 1, Len(lo) - 1) \o Tail(hi)>>
                    \o SubSeq(chunks, k + 1, Len(chunks)),
                    k - 1)
            ELSE RemoveEmptyRanges(chunks, k - 1)

\* the chunks of a bracket expression
Chunks(stuff) ==
    LET cs == SplitChunks(stuff, 1, IF stuff[1] = "!" THEN 3 ELSE 2)
    IN RemoveEmptyRanges(cs, Len(cs))

\* c matches [stuff]: the regular expression built from the chunks is a
\* character set in which every character stands for itself, two chunks that
\* follow each other make a range, and a leading `!` negates.
ClassMatch(stuff, c) ==
    LET cs == Chunks(stuff)
        negate == cs[1] # <<>> /\ cs[1][1] = "!"
        listed == \E k \in DOMAIN cs : \E i \in DOMAIN cs[k] :
                      cs[k][i] = c /\ ~(negate /\ k = 1 /\ i = 1)
        ranged == \E k \in 1 .. Len(cs) - 1 :
                      /\ Ord(cs[k][Len(cs[k])]) <= Ord(c)
                      /\ Ord(c) <= Ord(cs[k + 1][1])
    IN IF cs = <<<<>>>> THEN FALSE
       ELSE IF negate THEN ~(listed \/ ranged)
       ELSE listed \/ ranged

RECURSIVE FnMatch(_, _)
\* fnmatch.fnmatch(name, pat) on POSIX: `*` matches any run of characters
\* ('/' included), `?` any one character, `[seq]` and `[!seq]` one character
\* in or not in seq, an unclosed `[` and anything else itself; the whole name
\* must match.
FnMatch(name, pat) ==
    IF pat = <<>> THEN name = <<>>
    ELSE IF Head(pat) = "*"
    THEN IF Len(pat) >= 2 /\ pat[2] = "*"
         THEN FnMatch(name, Tail(pat))
         ELSE FnMatch(name, Tail(pat)) \/ (name # <<>> /\ FnMatch(Tail(name), pat))
    ELSE IF Head(pat) = "?"
    THEN name # <<>> /\ FnMatch(Tail(name), Tail(pat))
    ELSE IF Head(pat) = "[" /\ ClassEnd(pat) # 0
    THEN /\ name # <<>>
         /\ ClassMatch(SubSeq(pat, 2, ClassEnd(pat) - 1), Head(name))
         /\ FnMatch(Tail(name), SubSeq(pat, ClassEnd(pat) + 1, Len(pat)))
    ELSE name # <<>> /\ Head(name) = Head(pat) /\ FnMatch(Tail(name), Tail(pat))

\* os.path.join(repo_dir, path) on POSIX
JoinPath(repo_dir, path) ==
    IF path # <<>> /\ Head(path) = "/" THEN path
    ELSE IF repo_dir = <<>> \/ repo_dir[Len(repo_dir)] = "/" THEN repo_dir \o path
    ELSE repo_dir \o <<"/">> \o path

\* "target/**", "**/target/**", "**/*.class", "**/*.jar", "*.log",
\* "**/.idea/**", "**/.vscode/**", "**/*.pyc", "node_modules/**"
DefaultExcludePatterns ==
    <<<<"t", "a", "r", "g", "e", "t", "/", "*", "*">>,
      <<"*", "*", "/", "t", "a", "r", "g", "e", "t", "/", "*", "*">>,
      <<"*", "*", "/", "*", ".", "c", "l", "a", "s", "s">>,
      <<"*", "*", "/", "*", ".", "j", "a", "r">>,
      <<"*", ".", "l", "o", "g">>,
      <<"*", "*", "/", ".", "i", "d", "e", "a", "/", "*", "*">>,
      <<"*", "*", "/", ".", "v", "s", "c", "o", "d", "e", "/", "*", "*">>,
      <<"*", "*", "/", "*", ".", "p", "y", "c">>,
      <<"n", "o", "d", "e", "_", "m", "o", "d", "u", "l", "e", "s", "/", "*", "*">>>>

\* `if exclude_patterns is None: exclude_patterns = [...]`
EffectivePatterns(exclude_patterns) ==
    IF IsNone(exclude_patterns) THEN DefaultExcludePatterns ELSE Val(exclude_patterns)


\* Skip matching the path as reported only.
Skip_RelativeOnly(path, repo_dir, pats) ==
    \E i \in 1 .. Len(pats) : FnMatch(path, pats[i])

\* the inner loop: some pattern matches the path as reported or joined to
\* the repository root
Skip(path, repo_dir, pats) ==
    \E i \in 1 .. Len(pats) :
        FnMatch(path, pats[i]) \/ FnMatch(JoinPath(repo_dir, path), pats[i])

\* path = ln[3:]
PathOf(ln) == SubSeq(ln, 4, Len(ln))

RECURSIVE FilterFiles(_, _, _)
\* the loop over the lines of `git status --porcelain`
FilterFiles(lines, repo_dir, pats) ==
    IF lines = <<>> THEN <<>>
    ELSE LET ln == Head(lines)
             rest == FilterFiles(Tail(lines), repo_dir, pats)
         IN IF IsBlank(ln) THEN rest
            ELSE IF Skip(PathOf(ln), repo_dir, pats) THEN rest
            ELSE <<PathOf(ln)>> \o rest


\* NothingToStage never taking the early return.
NothingToStage_Never(files) == FALSE

\* `if not files`
NothingToStage(files) == files = <<>>

git_add_all(repo_dir, exclude_patterns, env) ==
    LET pats == EffectivePatterns(exclude_patterns)
        files == FilterFiles(env.status_stdout, repo_dir, pats)
        t1 == <<RunEvent(<<"git", "status", "--porcelain">>)>>
        t2 == t1 \o <<RunWithPaths(<<"git", "add", "--">>, files),
                      RunEvent(<<"git", "diff", "--name-only", "--cached">>)>>
    IN
    IF NothingToStage(files)
    THEN Returned(t1, [ok |-> TRUE, staged |-> <<>>,
                       msg |-> "No files to stage after filtering."])
    ELSE Returned(t2, [ok |-> env.add.returncode = 0,
                       staged |-> NonBlankLines(env.staged_stdout),
                       add_stdout |-> env.add.stdout,
                       add_stderr |-> env.add.stderr])

\* The inputs of git_add_all.  repo_dir is os.path.abspath(repo_dir).
RepoDirs == {<<"/", "r", "e", "p", "o">>, <<"/">>}
\* " M src/A.java", "?? A.class", "A  target/x.jar", "?? b.log", "   ",
\* "?? lib/A.class", "?? a.pyc"
StatusLines ==
    {<<" ", "M", " ", "s", "r", "c", "/", "A", ".", "j", "a", "v", "a">>,
     <<"?", "?", " ", "A", ".", "c", "l", "a", "s", "s">>,
     <<"A", " ", " ", "t", "a", "r", "g", "e", "t", "/", "x", ".", "j", "a", "r">>,
     <<"?", "?", " ", "b", ".", "l", "o", "g">>,
     <<" ", " ", " ">>,
     <<"?", "?", " ", "l", "i", "b", "/", "A", ".", "c", "l", "a", "s", "s">>,
     <<"?", "?", " ", "a", ".", "p", "y", "c">>}
RECURSIVE SeqsUpTo(_, _)
\* the sequences over S of length at most n
SeqsUpTo(S, n) ==
    IF n = 0 THEN {<<>>}
    ELSE LET shorter == SeqsUpTo(S, n - 1)
         IN shorter \cup {Append(q, x) : q \in shorter, x \in S}
StatusOutputs == SeqsUpTo(StatusLines, MaxLines)
\* None (the defaults), [], ["src/*"], ["?.log", "*.class"], ["*.py[!cod]", "[a-b].py[cod]"]
ExcludeOptions ==
    {None,
     Some(<<>>),
     Some(<<<<"s", "r", "c", "/", "*">>>>),
     Some(<<<<"?", ".", "l", "o", "g">>, <<"*", ".", "c", "l", "a", "s", "s">>>>),
     Some(<<<<"*", ".", "p", "y", "[", "!", "c", "o", "d", "]">>,
            <<"[", "a", "-", "b", "]", ".", "p", "y", "[", "c", "o", "d", "]">>>>)}

(***************************************************************************)
(* analyze_coverage                                                        *)
(***************************************************************************)
\* The report file lies at the path the caller may name or at the
\* conventional place under the project, where the rglob search finds it.
ExplicitPath == "target/site/jacoco/jacoco.xml"
SitePath == "codebase/target/site/jacoco/jacoco.xml"
ReportPlaces == {ExplicitPath, SitePath}

\* the file at a path: the report where it lies, nothing elsewhere
FileAt(path, env) == IF path = env.at THEN env.report ELSE AbsentReport

\* list(p.rglob("jacoco.xml")) + list(p.rglob("**/jacoco.xml"))
SearchHits(env) ==
    IF env.at = SitePath /\ env.report.kind # "absent"
    THEN <<SitePath, SitePath>> ELSE <<>>

\* the candidate paths, in the order they are tried
Candidates(jacoco_xml, env) ==
    IF ~IsNone(jacoco_xml) /\ Val(jacoco_xml) # ""
    THEN <<Val(jacoco_xml)>>
    ELSE IF SearchHits(env) # <<>> THEN SearchHits(env)
    ELSE <<SitePath>>

RECURSIVE FirstExisting(_, _)
\* the first candidate that exists, None when there is none
FirstExisting(cands, env) ==
    IF cands = <<>> THEN None
    ELSE IF FileAt(Head(cands), env).kind # "absent" THEN Some(Head(cands))
    ELSE FirstExisting(Tail(cands), env)


\* IsUncovered with `>=` for `>`.
IsUncovered_OrEqual(missed) == missed >= 0

\* `if missed > 0`
IsUncovered(missed) == missed > 0

RECURSIVE ScanCounters(_, _, _)
\* The loop over the <counter> children of one class: the units appended,
\* or the exception int() raises.
ScanCounters(cs, pkg_name, cls_name) ==
    IF cs = <<>> THEN [exc |-> "", units |-> <<>>]
    ELSE LET c == Head(cs)
             rest == ScanCounters(Tail(cs), pkg_name, cls_name)
         IN IF c.type # "LINE" THEN rest
            ELSE IF c.missed.text = "absent" THEN [exc |-> "TypeError", units |-> <<>>]
            ELSE IF c.missed.text # "int" THEN [exc |-> "ValueError", units |-> <<>>]
            ELSE IF c.covered.text = "absent" THEN [exc |-> "TypeError", units |-> <<>>]
            ELSE IF c.covered.text # "int" THEN [exc |-> "ValueError", units |-> <<>>]
            ELSE IF rest.exc # "" THEN rest
            ELSE [exc |-> "",
                  units |-> (IF IsUncovered(c.missed.val)
                             THEN <<[package |-> pkg_name, class |-> cls_name,
                                     missed |-> c.missed.val, covered |-> c.covered.val]>>
                             ELSE <<>>) \o rest.units]

RECURSIVE ScanClasses(_, _)
\* the loop over the <class> children of one package
ScanClasses(classes, pkg_name) ==
    IF classes = <<>> THEN [exc |-> "", units |-> <<>>]
    ELSE LET first == ScanCounters(Head(classes).counters, pkg_name, Head(classes).name)
         IN IF first.exc # "" THEN first
            ELSE LET rest == ScanClasses(Tail(classes), pkg_name)
                 IN IF rest.exc # "" THEN rest
                    ELSE [exc |-> "", units |-> first.units \o rest.units]

RECURSIVE ScanPackages(_)
\* the loop over root.findall('.//package')
ScanPackages(pkgs) ==
    IF pkgs = <<>> THEN [exc |-> "", units |-> <<>>]
    ELSE LET first == ScanClasses(Head(pkgs).classes, Head(pkgs).name)
         IN IF first.exc # "" THEN first
            ELSE LET rest == ScanPackages(Tail(pkgs))
                 IN IF rest.exc # "" THEN rest
                    ELSE [exc |-> "", units |-> first.units \o rest.units]

\* one recommendation string
Recommendation(item) ==
    "Increase tests for " \o item.package \o "." \o item.class
        \o " (missed lines: " \o ToString(item.missed) \o ")"

\* the recommendations, one per unit, in the order of the units
Recommendations(units) == [i \in DOMAIN units |-> Recommendation(units[i])]

analyze_coverage(jacoco_xml, env) ==
    LET found == FirstExisting(Candidates(jacoco_xml, env), env) IN
    IF IsNone(found)
    THEN Returned(<<>>, [ok |-> FALSE,
                         msg |-> "JaCoCo XML report not found. Run Maven tests with JaCoCo enabled."])
    ELSE LET report == FileAt(Val(found), env) IN
         IF ParseError(report) # "" THEN Raised(<<>>, "ParseError")
         ELSE LET scan == ScanPackages(report.packages) IN
              IF scan.exc # "" THEN Raised(<<>>, scan.exc)
              ELSE Returned(<<>>,
                     [ok |-> TRUE,
                      report |-> [file |-> Val(found),
                                  uncovered |-> scan.units,
                                  recommendations |-> Recommendations(scan.units)]])

(***************************************************************************)
(* Paths and the file system, as pathlib and the kernel see them           *)
(***************************************************************************)
RECURSIVE JoinWith(_, _)
\* sep.join(parts)
JoinWith(parts, sep) ==
    IF parts = <<>> THEN ""
    ELSE IF Len(parts) = 1 THEN parts[1]
    ELSE parts[1] \o sep \o JoinWith(Tail(parts), sep)

\* A file name is <<stem, suffix>>, as PurePath.stem and PurePath.suffix
\* split it: "Foo.java" is <<"Foo", ".java">>, "com" is <<"com", "">>.  A
\* path is a sequence of names, relative to the working directory unless it
\* starts with a root.
Plain(s) == <<s, "">>
RootName == Plain("/")
DoubleRoot == Plain("//")
DotDot == Plain("..")

\* the last position of the character c, 0 when there is none
LastIndex(chars, c) ==
    LET hits == {i \in DOMAIN chars : chars[i] = c}
    IN IF hits = {} THEN 0 ELSE CHOOSE i \in hits : \A j \in hits : j <= i

\* the name written `chars`: the suffix starts at the last dot, unless that
\* dot is the first or the last character
SplitName(chars) ==
    LET i == LastIndex(chars, ".") IN
    IF 1 < i /\ i < Len(chars)
    THEN <<JoinWith(SubSeq(chars, 1, i - 1), ""), JoinWith(SubSeq(chars, i, Len(chars)), "")>>
    ELSE Plain(JoinWith(chars, ""))

RECURSIVE SplitAt(_, _)
\* chars.split(sep)
SplitAt(chars, sep) ==
    IF \A i \in DOMAIN chars : chars[i] # sep THEN <<chars>>
    ELSE LET i == CHOOSE k \in DOMAIN chars :
                      chars[k] = sep /\ \A j \in 1 .. k - 1 : chars[j] # sep
         IN <<SubSeq(chars, 1, i - 1)>> \o SplitAt(SubSeq(chars, i + 1, Len(chars)), sep)

\* the root of a path written with n leading separators
RootOf(n) == IF n = 0 THEN <<>> ELSE IF n = 2 THEN <<DoubleRoot>> ELSE <<RootName>>

\* the parts of a dotted name without the empty ones
NamedParts(parts) == SelectSeq(parts, LAMBDA c : c # "")

\* Path(s) for a string given by its characters: repeated and trailing
\* slashes and "." components are dropped, ".." is kept.
ParsePath(chars) ==
    LET parts == SelectSeq(SplitAt(chars, "/"), LAMBDA c : c # <<>> /\ c # <<".">>)
    IN RootOf(SkipWhile(chars, 1, {"/"}) - 1) \o [i \in DOMAIN parts |-> SplitName(parts[i])]

\* base / rel
PathJoin(base, rel) ==
    IF rel # <<>> /\ rel[1] \in {RootName, DoubleRoot} THEN rel ELSE base \o rel

\* path.parent
Parent(path) == SubSeq(path, 1, Len(path) - 1)

\* directory a is directory b or lies above it
IsPrefix(a, b) == Len(a) <= Len(b) /\ SubSeq(b, 1, Len(a)) = a

\* The working directory of the server process.
WorkDir == <<RootName, Plain("w"), Plain("cwd")>>

\* the path from the root: a relative path starts at the working directory
FromRoot(path) ==
    IF path # <<>> /\ path[1] \in {RootName, DoubleRoot} THEN path ELSE WorkDir \o path

RECURSIVE Fold(_)
\* a path from the root without its "//" and ".." names: "//" is the root
\* "/", and ".." steps to the directory above, at the root to the root itself
Fold(path) ==
    IF path = <<>> THEN <<>>
    ELSE LET up == Fold(Parent(path))
             last == path[Len(path)]
         IN IF last \in {RootName, DoubleRoot} THEN <<RootName>>
            ELSE IF last # DotDot THEN up \o <<last>>
            ELSE IF up = <<RootName>> THEN up
            ELSE Parent(up)

\* Where the kernel finds a path: one place has one resolved path, however it
\* is named (there are no symbolic links).
Resolve(path) == Fold(FromRoot(path))

\* The disk maps the resolved path of every file and directory to what lies
\* there.  A text file is known by its text and by what the two patterns of
\* generate_tests extract from it: the first package declaration (the dotted
\* name split at its dots, <<>> when there is none) and the names of the
\* public methods, in the order found.
DirEntry == [kind |-> "dir"]
JavaText(text, package, methods) ==
    [kind |-> "file", utf8 |-> TRUE, text |-> text, package |-> package, methods |-> methods]
\* a file whose bytes are not valid UTF-8
Latin1Text(text, package, methods) ==
    [kind |-> "file", utf8 |-> FALSE, text |-> text, package |-> package, methods |-> methods]

\* The directories that are always there: the working directory and the
\* directories above it, up to the root.
Standing(r) == IsPrefix(r, WorkDir)

\* a directory lies at the resolved path r
IsDirAt(fs, r) == Standing(r) \/ (r \in DOMAIN fs /\ fs[r].kind = "dir")

\* every directory on the way to the last name of the path is there
Reachable(fs, path) ==
    \A k \in 1 .. Len(FromRoot(path)) - 1 :
        IsDirAt(fs, Resolve(SubSeq(FromRoot(path), 1, k)))

\* path.exists()
Exists(fs, path) ==
    Reachable(fs, path) /\ (Resolve(path) \in DOMAIN fs \/ Standing(Resolve(path)))

\* path.is_dir()
IsDir(fs, path) == Reachable(fs, path) /\ IsDirAt(fs, Resolve(path))

\* the disk with entry e at the resolved path r
Put(fs, r, e) == (r :> e) @@ fs

\* os.mkdir(path): "" when the directory is made, else the error
OsMkdir(fs, path) ==
    LET way == FromRoot(path)
        bad == {k \in 1 .. Len(way) - 1 : ~IsDirAt(fs, Resolve(SubSeq(way, 1, k)))}
    IN
    IF bad # {}
    THEN LET k == CHOOSE i \in bad : \A j \in bad : i <= j
         IN IF Resolve(SubSeq(way, 1, k)) \in DOMAIN fs THEN "ENOTDIR" ELSE "ENOENT"
    ELSE IF Resolve(path) \in DOMAIN fs \/ Standing(Resolve(path)) THEN "EEXIST"
    ELSE ""

\* the exception Python raises for an error of the kernel
ErrorName(errno) ==
    CASE errno = "ENOENT" -> "FileNotFoundError"
      [] errno = "ENOTDIR" -> "NotADirectoryError"
      [] OTHER -> "FileExistsError"

RECURSIVE Mkdir(_, _)
\* path.mkdir(parents=True, exist_ok=True): the disk afterwards and the
\* exception raised, "" when there is none
Mkdir(fs, path) ==
    LET e == OsMkdir(fs, path) IN
    IF e = "" THEN [fs |-> Put(fs, Resolve(path), DirEntry), raised |-> ""]
    ELSE IF e = "ENOENT"
    THEN IF path = <<>> THEN [fs |-> fs, raised |-> ErrorName(e)]
         ELSE LET up == Mkdir(fs, Parent(path)) IN
              IF up.raised # "" THEN up
              ELSE LET again == OsMkdir(up.fs, path) IN
                   IF again = ""
                   THEN [fs |-> Put(up.fs, Resolve(path), DirEntry), raised |-> ""]
                   ELSE IF again # "ENOENT" /\ IsDir(up.fs, path) THEN up
                   ELSE [fs |-> up.fs, raised |-> ErrorName(again)]
    ELSE IF IsDir(fs, path) THEN [fs |-> fs, raised |-> ""]
    ELSE [fs |-> fs, raised |-> ErrorName(e)]

\* the entries of the directory at the resolved path `dir`
Entries(fs, dir) ==
    {p \in DOMAIN fs : Len(p) = Len(dir) + 1 /\ IsPrefix(dir, p)}

\* the files at or below the path `root`
FilesUnder(fs, root) ==
    {p \in DOMAIN fs : fs[p].kind = "file" /\ IsPrefix(Resolve(root), p)}

\* The disk that holds the entries of `entries`, each given by a path, the
\* directories above them and the working directory.
WithDirs(entries) ==
    LET places == {Resolve(p) : p \in DOMAIN entries}
        dirs == UNION {{SubSeq(r, 1, k) : k \in 1 .. Len(r) - 1} : r \in places \cup {WorkDir}}
                \cup {WorkDir}
    IN [r \in places \cup dirs |->
          IF r \in places THEN entries[CHOOSE p \in DOMAIN entries : Resolve(p) = r]
          ELSE DirEntry]

(***************************************************************************)
(* generate_tests                                                          *)
(***************************************************************************)
\* Largest number of files on the disk for which generate_tests is still
\* called.
MaxFiles == 3

\* p / "src" / "main" / "java" and p / "src" / "test" / "java" for the
\* project directory "codebase"
SourceRoot == <<Plain("codebase"), Plain("src"), Plain("main"), Plain("java")>>
DefaultTestRoot == <<Plain("codebase"), Plain("src"), Plain("test"), Plain("java")>>

\* `if out_dir: test_root = Path(out_dir)`, out_dir a string given by its
\* characters or None
TestRoot(out_dir) ==
    IF IsNone(out_dir) \/ Val(out_dir) = <<>> THEN DefaultTestRoot
    ELSE ParsePath(Val(out_dir))

\* the source tree: what lies at and below the source root
SourceTree(fs) ==
    [p \in {q \in DOMAIN fs : IsPrefix(Resolve(SourceRoot), q)} |-> fs[p]]

\* the name matches the pattern "*.java"
JavaName(name) == name[2] = ".java" \/ name = Plain(".java")

RECURSIVE Perms(_)
\* the orders in which scandir may list a set of entries
Perms(entries) ==
    IF entries = {} THEN {<<>>}
    ELSE UNION {{<<e>> \o p : p \in Perms(entries \ {e})} : e \in entries}

\* `if not methods: continue`
HasMethods(entry) == entry.methods # <<>>

\* The number of dots a package starts with, the package given as the dotted
\* name split at its dots: every dot before the first name leaves one empty
\* part, and a package of n dots alone is n + 1 empty parts.
LeadingDots(package) ==
    IF NamedParts(package) = <<>> THEN IF package = <<>> THEN 0 ELSE Len(package) - 1
    ELSE SkipWhile(package, 1, {""}) - 1

\* test_root / package.replace('.', os.sep): each leading dot becomes a
\* leading separator, so a package that starts with a dot gives an absolute
\* path, which replaces the test root
OutDirFull(test_root, package) ==
    LET names == NamedParts(package)
    IN PathJoin(test_root,
                RootOf(LeadingDots(package)) \o [i \in DOMAIN names |-> Plain(names[i])])

\* out_dir_full / (class_name + "Test.java"), class_name = java_file.stem
TestFilePath(test_root, java_file, entry) ==
    OutDirFull(test_root, entry.package) \o <<<<java_file[Len(java_file)][1] \o "Test", ".java">>>>

\* a file edited by hand taken for a stale one and regenerated
TargetExists_UnlessEdited(fs, test_file) ==
    Exists(fs, test_file) /\ fs[Resolve(test_file)] # JavaText("// written by hand\n", <<>>, <<>>)

\* test_file.exists()
TargetExists(fs, test_file) == Exists(fs, test_file)

RECURSIVE TestMethods(_)
\* one placeholder test per method found
TestMethods(methods) ==
    IF methods = <<>> THEN ""
    ELSE "    @Test\n    public void test_" \o Head(methods)
         \o "() {\n        // TODO: add assertions for " \o Head(methods)
         \o "\n        fail(\"Not yet implemented\");\n    }\n\n"
         \o TestMethods(Tail(methods))

\* the text written to a new skeleton
Skeleton(class_name, entry) ==
    (IF entry.package = <<>> THEN ""
     ELSE "package " \o JoinWith(entry.package, ".") \o ";\n")
    \o "import org.junit.jupiter.api.Test;\nimport static org.junit.jupiter.api.Assertions.*;\n"
    \o "public class " \o class_name \o "Test {\n"
    \o TestMethods(entry.methods)
    \o "}\n"

\* The skeleton as a file: the patterns find in it the package of its source
\* and one public method test_{name} per method.
SkeletonFile(class_name, entry) ==
    JavaText(Skeleton(class_name, entry), entry.package,
             [i \in DOMAIN entry.methods |-> "test_" \o entry.methods[i]])

\* The state of a run: the disk, the count of skeletons created and the
\* exception that ended it, "" while there is none.
RunState(fs, created, raised) == [fs |-> fs, created |-> created, raised |-> raised]

\* one pass of the loop body, for the path java_file that rglob yielded
LoopBody(st, test_root, java_file) ==
    LET entry == st.fs[java_file] IN
    IF entry.kind = "dir" THEN [st EXCEPT !.raised = "IsADirectoryError"]
    ELSE IF ~entry.utf8 THEN [st EXCEPT !.raised = "UnicodeDecodeError"]
    ELSE IF ~HasMethods(entry) THEN st
    ELSE LET made == Mkdir(st.fs, OutDirFull(test_root, entry.package))
             test_file == TestFilePath(test_root, java_file, entry)
         IN IF made.raised # "" THEN RunState(made.fs, st.created, made.raised)
            ELSE IF TargetExists(made.fs, test_file) THEN [st EXCEPT !.fs = made.fs]
            ELSE RunState(Put(made.fs, Resolve(test_file),
                              SkeletonFile(java_file[Len(java_file)][1], entry)),
                          st.created + 1, "")

RECURSIVE GenerateLoop(_, _, _)
\* the loop over the entries of one directory, in the order listed
GenerateLoop(st, test_root, order) ==
    IF order = <<>> \/ st.raised # "" THEN st
    ELSE GenerateLoop(LoopBody(st, test_root, Head(order)), test_root, Tail(order))

RECURSIVE Rglob(_, _, _), RglobBelow(_, _, _)
\* The walk of rglob("*.java") from the directory at the resolved path `dir`,
\* the loop body run on
\* each path as it is yielded: the entries of `dir` that match are listed at
\* once and yielded in the order of the listing; when the loop is through
\* with them the directory is listed again for the directories below it,
\* which are walked in the order of that listing.  The states the run may
\* end in.
Rglob(st, test_root, dir) ==
    IF st.raised # "" THEN {st}
    ELSE LET hits == {p \in Entries(st.fs, dir) : JavaName(p[Len(p)])}
             after == {GenerateLoop(st, test_root, order) : order \in Perms(hits)}
         IN UNION {IF s.raised # "" THEN {s}
                   ELSE UNION {RglobBelow(s, test_root, dirs) :
                                 dirs \in Perms({p \in Entries(s.fs, dir) : s.fs[p].kind = "dir"})}
                   : s \in after}

\* the walks of the directories `dirs`, one after the other
RglobBelow(st, test_root, dirs) ==
    IF dirs = <<>> THEN {st}
    ELSE UNION {RglobBelow(s, test_root, Tail(dirs)) : s \in Rglob(st, test_root, Head(dirs))}

\* generate_tests("codebase", out_dir) on the disk fs: the outcomes the
\* orders of the listings allow, each the disk afterwards and the dict
\* returned or the exception raised.
generate_tests(fs, out_dir) ==
    IF ~Exists(fs, SourceRoot)
    THEN {[fs |-> fs,
           result |-> [ok |-> FALSE, msg |-> "Source root not found: codebase/src/main/java"]]}
    ELSE {[fs |-> s.fs,
           result |-> IF s.raised # "" THEN [raised |-> s.raised]
                      ELSE [ok |-> TRUE, created_tests |-> s.created]] :
            s \in Rglob(RunState(fs, 0, ""), TestRoot(out_dir), Resolve(SourceRoot))}

\* The sources: Foo.java and the Foo.java of com/other both declare package
\* com.example; Bar.java lies at the top and declares com.example; Empty.java
\* has no public method; Zed.java is an ISO-8859-1 file; gen.java is a
\* directory; Qux.java declares a package that starts with two dots.
ExampleDir == SourceRoot \o <<Plain("com"), Plain("example")>>
FooFile == (ExampleDir \o <<<<"Foo", ".java">>>>) :>
    JavaText("package com.example;\npublic class Foo { public int add(int a) { return a; } }\n",
             <<"com", "example">>, <<"add">>)
OtherFooFile == (SourceRoot \o <<Plain("com"), Plain("other"), <<"Foo", ".java">>>>) :>
    JavaText("package com.example;\npublic class Foo { public int sub(int a) { return a; } public int add(int a) { return a; } }\n",
             <<"com", "example">>, <<"sub", "add">>)
BarFile == (SourceRoot \o <<<<"Bar", ".java">>>>) :>
    JavaText("package com.example;\npublic class Bar { public void run() {} }\n",
             <<"com", "example">>, <<"run">>)
EmptyFile == (ExampleDir \o <<<<"Empty", ".java">>>>) :>
    JavaText("package com.example;\nclass Empty {}\n", <<"com", "example">>, <<>>)
ZedFile == (ExampleDir \o <<<<"Zed", ".java">>>>) :>
    Latin1Text("package com.example;\n// 0xE9\npublic class Zed { public void go() {} }\n",
               <<"com", "example">>, <<"go">>)
GenDir == (ExampleDir \o <<<<"gen", ".java">>>>) :> DirEntry
\* Qux.java declares `package ..x;`: its skeleton goes to //x/QuxTest.java,
\* which is the file /x/QuxTest.java.
QuxFile == (SourceRoot \o <<<<"Qux", ".java">>>>) :>
    JavaText("package ..x;\npublic class Qux { public void quit() {} }\n",
             <<"", "", "x">>, <<"quit">>)

\* The disk before the first call: no source root, or a source root with
\* some of the sources, beside it perhaps a test written by hand at
\* /x/QuxTest.java; the default test root empty, or (beside the smaller
\* source trees) holding a test written by hand at the path of FooTest.
NoFiles == (<<Plain("codebase")>> :> DirEntry)
HandWritten == JavaText("// written by hand\n", <<>>, <<>>)
HandWrittenTest ==
    (DefaultTestRoot \o <<Plain("com"), Plain("example"), <<"FooTest", ".java">>>>) :> HandWritten
HandWrittenAtRoot == <<RootName, Plain("x"), <<"QuxTest", ".java">>>> :> HandWritten
SourceDisks ==
    {NoFiles,
     SourceRoot :> DirEntry,
     FooFile,
     FooFile @@ OtherFooFile,
     FooFile @@ OtherFooFile @@ EmptyFile,
     BarFile,
     FooFile @@ BarFile,
     FooFile @@ ZedFile,
     FooFile @@ GenDir,
     QuxFile,
     QuxFile @@ HandWrittenAtRoot}
InitialDisks ==
    {WithDirs(d) : d \in SourceDisks}
    \cup {WithDirs(d @@ HandWrittenTest) : d \in {NoFiles, FooFile, FooFile @@ BarFile}}

\* The values of out_dir: none, "", "out", "/w/cwd/out" (the same place by its
\* path from the root), the source root written
\* "../cwd/codebase//src/main/java/", and a directory inside the source root.
OutDirs ==
    {None,
     Some(<<>>),
     Some(<<"o", "u", "t">>),
     Some(<<"/", "w", "/", "c", "w", "d", "/", "o", "u", "t">>),
     Some(<<".", ".", "/", "c", "w", "d", "/", "c", "o", "d", "e", "b", "a", "s", "e",
            "/", "/", "s", "r", "c", "/", "m", "a", "i", "n", "/", "j", "a", "v", "a",
            "/">>),
     Some(<<"c", "o", "d", "e", "b", "a", "s", "e", "/", "s", "r", "c", "/", "m", "a",
            "i", "n", "/", "j", "a", "v", "a", "/", "c", "o", "m">>)}

(***************************************************************************)
(* configure_jacoco                                                        *)
(***************************************************************************)
\* The bytes of pom.xml as the sequence of its pieces: tags, other content,
\* line ends.  The snippet inserted is one piece; it contains
\* "jacoco-maven-plugin".  "0xE9" is a byte that is not valid UTF-8.
PluginSnippet == "<plugin>jacoco-maven-plugin</plugin>"
PomTexts ==
    {<<"<project>", "A", "<build>", "<plugins>", "</plugins>", "</build>", "</project>">>,
     <<"<project>", "B", "<build>", "</build>", "</project>">>,
     <<"<project>", "A", "</project>">>,
     <<"A">>,
     <<"<project>", "<build>", "<plugins>", "<plugin>jacoco-maven-plugin</plugin>",
       "</plugins>", "</build>", "</project>">>}
CrlfPom == <<"<project>", "\r\n", "A", "\r\n", "</project>">>
Latin1Pom == <<"<project>", "0xE9", "</project>">>
PomFiles == PomTexts \cup {CrlfPom, Latin1Pom}

\* what lies at a path: a file with its bytes, or a directory
FileOf(bytes) == [kind |-> "file", bytes |-> bytes]
Directory == [kind |-> "dir", bytes |-> <<>>]

\* `sub in text`
Contains(text, piece) == \E i \in DOMAIN text : text[i] = piece

\* the bytes decode as UTF-8
Decodes(bytes) == ~Contains(bytes, "0xE9")

\* read_text(encoding="utf-8") of bytes that decode: the line ends "\r\n" and
\* "\r" are read as "\n"
ReadText(bytes) ==
    [i \in DOMAIN bytes |-> IF bytes[i] \in {"\r\n", "\r"} THEN "\n" ELSE bytes[i]]

RECURSIVE ReplaceAll(_, _, _)
\* text.replace(old, new)
ReplaceAll(text, old, new) ==
    IF text = <<>> THEN <<>>
    ELSE (IF Head(text) = old THEN new ELSE <<Head(text)>>) \o ReplaceAll(Tail(text), old, new)

RECURSIVE ReplaceFirst(_, _, _)
\* text.replace(old, new, 1)
ReplaceFirst(text, old, new) ==
    IF text = <<>> THEN <<>>
    ELSE IF Head(text) = old THEN new \o Tail(text)
    ELSE <<Head(text)>> \o ReplaceFirst(Tail(text), old, new)

\* `if "jacoco-maven-plugin" in text`
HasJacoco(text) == Contains(text, PluginSnippet)

\* the insertion under <build><plugins>
InsertJacoco(text) ==
    IF Contains(text, "<build>")
    THEN IF Contains(text, "<plugins>")
         THEN ReplaceFirst(text, "<plugins>", <<"<plugins>", PluginSnippet>>)
         ELSE ReplaceAll(text, "<build>", <<"<build>", "<plugins>", PluginSnippet, "</plugins>">>)
    ELSE ReplaceAll(text, "</project>",
                    <<"<build>", "<plugins>", PluginSnippet, "</plugins>", "</build>", "</project>">>)

\* `if not backup.exists()`
BackupNeeded(backup) == IsNone(backup)

\* The contents a file may hold while write_text is writing `text` over what
\* was written so far: more of the text, not yet all of it.
PartWritten(written, text) ==
    {SubSeq(text, 1, k) : k \in Len(written) + 1 .. Len(text) - 1}

(***************************************************************************)
(* The server: idle, a tool call runs to completion, its answer is sent    *)
(***************************************************************************)
VARIABLES pc, call, trace, result
\* The disk: fs, the files and directories around the project "codebase";
\* pom and bak, what lies at codebase/pom.xml and codebase/pom.xml.bak (None
\* when nothing does); and lastRun, of the last call of generate_tests, if it
\* returned its count, the test root and the source tree as the call left it
\* (None before the first call and after a call that did not).
VARIABLES fs, lastRun, pom, bak
disk == <<fs, lastRun, pom, bak>>
vars == <<pc, call, trace, result, fs, lastRun, pom, bak>>

NoCall == [tool |-> "none"]

\* The server started beside no project.
Init ==
    /\ pc = "idle"
    /\ call = NoCall
    /\ trace = <<>>
    /\ result = [ok |-> TRUE]
    /\ fs = WithDirs(NoFiles)
    /\ lastRun = None
    /\ pom = None
    /\ bak = None

GitCommit ==
    /\ pc = "idle"
    /\ \E message \in Messages, include_coverage \in BOOLEAN, jacoco_xml \in JacocoPaths,
          coverage_threshold \in Thresholds, so \in StagedOutputs, report \in Reports,
          cr \in RunResults :
         LET env == [staged_stdout |-> so, report |-> report, commit |-> cr]
             r == git_commit(message, include_coverage, jacoco_xml, coverage_threshold, env)
         IN /\ call' = [tool |-> "git_commit", message |-> message,
                        include_coverage |-> include_coverage, jacoco_xml |-> jacoco_xml,
                        coverage_threshold |-> coverage_threshold, env |-> env]
            /\ trace' = r.trace
            /\ result' = r.result
    /\ pc' = "returned"
    /\ UNCHANGED disk

\* The answer goes back to the client and the server waits for the next call.
Respond ==
    /\ pc = "returned"
    /\ pc' = "idle"
    /\ call' = NoCall
    /\ trace' = <<>>
    /\ result' = [ok |-> TRUE]
    /\ UNCHANGED disk

GitPush ==
    /\ pc = "idle"
    /\ \E remote \in Remotes, bo \in BranchOutputs, pr \in PlainPushResults,
          ur \in UpstreamPushResults :
         LET env == [branch_stdout |-> bo, push |-> pr, push_up |-> ur]
             r == git_push(remote, env)
         IN /\ call' = [tool |-> "git_push", remote |-> remote, env |-> env]
            /\ trace' = r.trace
            /\ result' = r.result
    /\ pc' = "returned"
    /\ UNCHANGED disk

GitAddAll ==
    /\ pc = "idle"
    /\ \E repo_dir \in RepoDirs, exclude_patterns \in ExcludeOptions,
          st \in StatusOutputs, ar \in RunResults, so \in StagedOutputs :
         LET env == [status_stdout |-> st, add |-> ar, staged_stdout |-> so]
             r == git_add_all(repo_dir, exclude_patterns, env)
         IN /\ call' = [tool |-> "git_add_all", repo_dir |-> repo_dir,
                        exclude_patterns |-> exclude_patterns, env |-> env]
            /\ trace' = r.trace
            /\ result' = r.result
    /\ pc' = "returned"
    /\ UNCHANGED disk

\* _compute_jacoco_coverage called on a report path.
ComputeCoverage ==
    /\ pc = "idle"
    /\ \E report \in Reports :
         /\ call' = [tool |-> "_compute_jacoco_coverage", jacoco_xml_path |-> ExplicitPath,
                     env |-> [report |-> report]]
         /\ result' = ComputeJacocoCoverage(ExplicitPath, report)
    /\ trace' = <<>>
    /\ pc' = "returned"
    /\ UNCHANGED disk

AnalyzeCoverage ==
    /\ pc = "idle"
    /\ \E jacoco_xml \in JacocoPaths, report \in Reports, at \in ReportPlaces :
         LET env == [report |-> report, at |-> at]
             r == analyze_coverage(jacoco_xml, env)
         IN /\ call' = [tool |-> "analyze_coverage", jacoco_xml |-> jacoco_xml, env |-> env]
            /\ trace' = r.trace
            /\ result' = r.result
    /\ pc' = "returned"
    /\ UNCHANGED disk

Next == GitCommit \/ GitPush \/ GitAddAll \/ ComputeCoverage \/ AnalyzeCoverage \/ Respond

Spec == Init /\ [][Next]_vars

(***************************************************************************)
(* The server beside a source tree: generate_tests                         *)
(***************************************************************************)
InitGen ==
    /\ pc = "idle"
    /\ call = NoCall
    /\ trace = <<>>
    /\ result = [ok |-> TRUE]
    /\ fs \in InitialDisks
    /\ lastRun = None
    /\ pom = None
    /\ bak = None

\* One call of generate_tests("codebase", out_dir), from the first line to
\* the return or to the exception that ends it.
GenerateTests ==
    /\ pc = "idle"
    /\ Cardinality(FilesUnder(fs, <<>>)) <= MaxFiles
    /\ \E out_dir \in OutDirs :
       \E r \in generate_tests(fs, out_dir) :
         /\ call' = [tool |-> "generate_tests", out_dir |-> out_dir]
         /\ fs' = r.fs
         /\ result' = r.result
         /\ lastRun' = IF ~HasRaised(r.result) /\ r.result.ok
                       THEN Some([test_root |-> Resolve(TestRoot(out_dir)),
                                  tree |-> SourceTree(r.fs)])
                       ELSE None
    /\ trace' = <<>>
    /\ pc' = "returned"
    /\ UNCHANGED <<pom, bak>>

\* Between calls the user rewrites a file under the default test root by hand.
EditTest ==
    /\ pc = "idle"
    /\ \E f \in FilesUnder(fs, DefaultTestRoot) :
         /\ fs[f] # HandWritten
         /\ fs' = [fs EXCEPT ![f] = HandWritten]
    /\ UNCHANGED <<pc, call, trace, result, lastRun, pom, bak>>

NextGen == GenerateTests \/ EditTest \/ Respond

SpecGen == InitGen /\ [][NextGen]_vars

(***************************************************************************)
(* The server beside a pom.xml: configure_jacoco, step by step             *)
(***************************************************************************)
InitPom ==
    /\ pc = "idle"
    /\ call = NoCall
    /\ trace = <<>>
    /\ result = [ok |-> TRUE]
    /\ fs = WithDirs(NoFiles)
    /\ lastRun = None
    /\ pom \in {None, Some(Directory)} \cup {Some(FileOf(t)) : t \in PomFiles}
    /\ bak = None

\* configure_jacoco up to its first write: the existence check, the read
\* (which raises on a directory and on bytes that are not UTF-8) and the
\* test for the plugin.
ConfigureStart ==
    /\ pc = "idle"
    /\ IF IsNone(pom)
       THEN /\ pc' = "returned"
            /\ call' = [tool |-> "configure_jacoco", bytes |-> <<>>, text |-> <<>>]
            /\ result' = [ok |-> FALSE, msg |-> "pom.xml not found in codebase"]
       ELSE IF Val(pom).kind = "dir"
       THEN /\ pc' = "returned"
            /\ call' = [tool |-> "configure_jacoco", bytes |-> <<>>, text |-> <<>>]
            /\ result' = [raised |-> "IsADirectoryError"]
       ELSE IF ~Decodes(Val(pom).bytes)
       THEN /\ pc' = "returned"
            /\ call' = [tool |-> "configure_jacoco", bytes |-> Val(pom).bytes, text |-> <<>>]
            /\ result' = [raised |-> "UnicodeDecodeError"]
       ELSE /\ call' = [tool |-> "configure_jacoco", bytes |-> Val(pom).bytes,
                        text |-> ReadText(Val(pom).bytes)]
            /\ IF HasJacoco(ReadText(Val(pom).bytes))
               THEN /\ pc' = "returned"
                    /\ result' = [ok |-> TRUE, msg |-> "JaCoCo already configured in pom.xml"]
               ELSE /\ pc' = "backup"
                    /\ result' = result
    /\ trace' = <<>>
    /\ UNCHANGED disk

\* `if not backup.exists(): pom.replace(backup)`: pom.xml is renamed to
\* pom.xml.bak.
ConfigureMove ==
    /\ pc = "backup"
    /\ IF BackupNeeded(bak)
       THEN /\ bak' = pom
            /\ pom' = None
            /\ pc' = "backup_open"
       ELSE /\ UNCHANGED <<pom, bak>>
            /\ pc' = "pom_open"
    /\ UNCHANGED <<call, trace, result, fs, lastRun>>

\* backup.write_text(text) opens the file for writing, which empties it, ...
ConfigureOpenBackup ==
    /\ pc = "backup_open"
    /\ bak' = Some(FileOf(<<>>))
    /\ pc' = "backup_write"
    /\ UNCHANGED <<call, trace, result, fs, lastRun, pom>>

\* ... writes the text, of which a part reaches the file first, ...
ConfigureWriteBackupPart ==
    /\ pc = "backup_write"
    /\ \E part \in PartWritten(Val(bak).bytes, call.text) : bak' = Some(FileOf(part))
    /\ UNCHANGED <<pc, call, trace, result, fs, lastRun, pom>>

\* ... and then the rest.
ConfigureWriteBackup ==
    /\ pc = "backup_write"
    /\ bak' = Some(FileOf(call.text))
    /\ pc' = "pom_open"
    /\ UNCHANGED <<call, trace, result, fs, lastRun, pom>>

\* pom.write_text(text) opens pom.xml for writing, which creates it empty or
\* empties it, ...
ConfigureOpenPom ==
    /\ pc = "pom_open"
    /\ pom' = Some(FileOf(<<>>))
    /\ pc' = "pom_write"
    /\ UNCHANGED <<call, trace, result, fs, lastRun, bak>>

\* ... writes the text with the snippet inserted, a part first, ...
ConfigureWritePomPart ==
    /\ pc = "pom_write"
    /\ \E part \in PartWritten(Val(pom).bytes, InsertJacoco(call.text)) :
         pom' = Some(FileOf(part))
    /\ UNCHANGED <<pc, call, trace, result, fs, lastRun, bak>>

\* ... and then the rest; the call returns.
ConfigureWritePom ==
    /\ pc = "pom_write"
    /\ pom' = Some(FileOf(InsertJacoco(call.text)))
    /\ result' = [ok |-> TRUE, msg |-> "Inserted JaCoCo plugin into pom.xml (backup created)"]
    /\ pc' = "returned"
    /\ UNCHANGED <<call, trace, fs, lastRun, bak>>

\* The process is killed between two filesystem steps of configure_jacoco,
\* or inside a write; the disk stays as it is.
Crash ==
    /\ pc \in {"backup", "backup_open", "backup_write", "pom_open", "pom_write"}
    /\ pc' = "crashed"
    /\ UNCHANGED <<call, trace, result>>
    /\ UNCHANGED disk

\* The server is started again.
Restart ==
    /\ pc = "crashed"
    /\ pc' = "idle"
    /\ call' = NoCall
    /\ trace' = <<>>
    /\ result' = [ok |-> TRUE]
    /\ UNCHANGED disk

\* Between calls the user rewrites pom.xml (the disk is not the server's alone).
EditPom ==
    /\ pc = "idle"
    /\ \E t \in PomFiles : pom' = Some(FileOf(t)) /\ pom' # pom
    /\ UNCHANGED <<pc, call, trace, result, fs, lastRun, bak>>

NextPom ==
    \/ ConfigureStart \/ ConfigureMove
    \/ ConfigureOpenBackup \/ ConfigureWriteBackupPart \/ ConfigureWriteBackup
    \/ ConfigureOpenPom \/ ConfigureWritePomPart \/ ConfigureWritePom
    \/ Crash \/ Restart \/ EditPom
    \/ Respond

SpecPom == InitPom /\ [][NextPom]_vars

(***************************************************************************)
(* Properties                                                              *)
(***************************************************************************)
Range(q) == {q[i] : i \in DOMAIN q}
Events(P(_)) == {i \in DOMAIN trace : P(trace[i])}
After(tool) == pc = "returned" /\ call.tool = tool

\* the staged-change query named at least one path
HasStaged == \E i \in DOMAIN call.env.staged_stdout :
                 \E j \in DOMAIN call.env.staged_stdout[i] :
                     call.env.staged_stdout[i][j] \notin Whitespace
\* a coverage gate was requested: include_coverage with a report path
AskedForGate ==
    call.include_coverage /\ call.jacoco_xml \notin {None, Some("")}
\* what aggregation of the report at the path gives
Aggregate == ComputeJacocoCoverage(Val(call.jacoco_xml), call.env.report)
\* the percent of the aggregate is below the threshold supplied
AggregateBelow ==
    /\ call.coverage_threshold # None
    /\ LET t == Val(call.coverage_threshold)
           total == Aggregate.covered + Aggregate.missed
       IN IF total = 0 THEN 0 < t ELSE DoubleLess(Aggregate.percent, t)
ExampleReport ==
    XmlReport(<<ClassElem("com/example/Foo",
                          <<Counter("BRANCH", IntAttr(1), IntAttr(1)), LineCounter(15, 85)>>)>>,
              FALSE)

\* C1: git_commit with staged changes, a requested gate, a successful
\* aggregation and percent below the supplied threshold returns the
\* threshold failure (ok = false, with the aggregate) and never runs
\* `git commit`.
C1_ThresholdFailedNoCommit ==
    (After("git_commit") /\ HasStaged /\ AskedForGate /\ Aggregate.ok /\ AggregateBelow)
    => /\ ~HasRaised(result)
       /\ result.ok = FALSE
       /\ DOMAIN result = {"ok", "msg", "coverage"}
       /\ result.coverage = Aggregate
       /\ Events(IsCommit) = {}

C1_Witness ==
    /\ After("git_commit") /\ HasStaged /\ AskedForGate
    /\ call.env.report = ExampleReport
    /\ call.coverage_threshold = Some(90)
    /\ result = [ok |-> FALSE,
                 msg |-> "Coverage 85.00% below threshold 90.0% - aborting commit.",
                 coverage |-> [ok |-> TRUE, percent |-> DoubleOfInt(85), covered |-> 85, missed |-> 15]]
    /\ Events(IsCommit) = {}

\* C2: git_commit with no staged path returns "No staged changes to commit."
\* (ok = false) whatever include_coverage, jacoco_xml and coverage_threshold
\* are, having run only the staged-change query: no commit, no coverage parse.
C2_NoStagedChanges ==
    (After("git_commit") /\ ~HasStaged)
    => /\ result = [ok |-> FALSE, msg |-> "No staged changes to commit."]
       /\ trace = <<RunEvent(<<"git", "diff", "--name-only", "--cached">>)>>

C2_Witness ==
    /\ After("git_commit") /\ ~HasStaged
    /\ call.env.staged_stdout # <<>>
    /\ AskedForGate /\ Aggregate.ok /\ AggregateBelow
    /\ result.ok = FALSE
    /\ Events(IsCommit) = {} /\ Len(trace) = 1

\* C3: git_commit with staged changes and a requested gate whose aggregation
\* fails still runs `git commit`, with the message
\* "{message} | Coverage: unknown ({reason})", with or without a threshold.
C3_CoverageUnknownStillCommits ==
    (After("git_commit") /\ HasStaged /\ AskedForGate /\ ~Aggregate.ok)
    => /\ ~HasRaised(result)
       /\ \E i \in Events(IsCommit) :
              trace[i].argv[4] = call.message \o " | Coverage: unknown (" \o Aggregate.msg \o ")"

\* C4: every `git commit` run by git_commit carries the message
\* "{message} | Coverage: {percent:.2f}% ({covered}/{covered+missed})" when
\* coverage was computed in the call, and the base message unchanged when no
\* coverage was computed.
C4_CommitMessage ==
    After("git_commit") =>
        \A i \in Events(IsCommit) :
            IF Events(LAMBDA e : e.kind = "coverage") # {} /\ Aggregate.ok
            THEN /\ trace[i].argv[4] =
                        call.message \o " | Coverage: " \o Fmt2(Aggregate.percent) \o "% ("
                        \o ToString(Aggregate.covered) \o "/"
                        \o ToString(Aggregate.covered + Aggregate.missed) \o ")"
                 /\ result.coverage = Some(Aggregate)
            ELSE /\ trace[i].argv[4] = call.message
                 /\ Events(LAMBDA e : e.kind = "coverage") = {}
                 /\ result.coverage = None

C4_Witness ==
    /\ After("git_commit") /\ HasStaged /\ AskedForGate
    /\ call.coverage_threshold = None
    /\ call.env.report = ExampleReport
    /\ \E i \in Events(IsCommit) :
           trace[i].argv = <<"git", "commit", "-m", "fix parser | Coverage: 85.00% (85/100)">>
    /\ result.ok = TRUE
    /\ result.coverage = Some([ok |-> TRUE, percent |-> DoubleOfInt(85), covered |-> 85, missed |-> 15])

\* C5: git_commit called with a coverage_threshold, when the coverage of the
\* report is below the threshold, aborts the commit and returns not-ok, also
\* when include_coverage is false.
C5_ThresholdAlwaysEnforced ==
    (/\ After("git_commit") /\ HasStaged
     /\ call.jacoco_xml \notin {None, Some("")}
     /\ Aggregate.ok /\ AggregateBelow)
    => /\ ~HasRaised(result)
       /\ result.ok = FALSE
       /\ Events(IsCommit) = {}

\* the branch query named a branch
HasBranch ==
    /\ call.env.branch_stdout # None
    /\ \E j \in DOMAIN Val(call.env.branch_stdout) :
           Val(call.env.branch_stdout)[j] \notin Whitespace
\* the push commands of the call, in the order they ran
Pushes == SelectSeq(trace, IsPush)

\* C6: in git_push with a known branch, a plain push that fails is followed by
\* exactly one `push -u`, one that succeeds by no further push, and no call
\* runs more than two pushes (plain first, upstream-setting second).
C6_TwoAttemptPush ==
    After("git_push") =>
        /\ Len(Pushes) <= 2
        /\ Len(Pushes) >= 1 => IsPlainPush(Pushes[1])
        /\ Len(Pushes) = 2 => IsUpstreamPush(Pushes[2])
        /\ (HasBranch /\ call.env.push.returncode # 0)
               => /\ Len(Pushes) = 2
                  /\ Pushes[1].argv = <<"git", "push", call.remote>>
                  /\ Pushes[2].argv = <<"git", "push", "-u", call.remote>>
                  /\ Pushes[2].paths = Pushes[1].paths
        /\ (HasBranch /\ call.env.push.returncode = 0) => Len(Pushes) = 1

C6_Witness ==
    /\ After("git_push") /\ HasBranch
    /\ call.env.push.returncode = 128
    /\ Len(Pushes) = 2 /\ IsUpstreamPush(Pushes[2])
    /\ Pushes[2].paths = <<<<"m", "a", "i", "n">>>>
    /\ result.ok = TRUE

\* C7: in git_push, when the plain push fails and `push -u` runs, the captured
\* stdout and stderr of the failed plain push are present in the result.
C7_PlainFailurePreserved ==
    (After("git_push") /\ HasBranch /\ call.env.push.returncode # 0)
    => /\ Range(call.env.push.stdout) \subseteq Range(result.stdout) \cup Range(result.stderr)
       /\ Range(call.env.push.stderr) \subseteq Range(result.stdout) \cup Range(result.stderr)

\* C8: git_push, when the branch query yields no name, returns
\* "Cannot determine current branch." (ok = false) and runs no push.
C8_UnknownBranch ==
    (After("git_push") /\ ~HasBranch)
    => /\ result = [ok |-> FALSE, msg |-> "Cannot determine current branch."]
       /\ Pushes = <<>>
       /\ Len(trace) = 1

C8_Witness ==
    /\ After("git_push")
    /\ call.env.branch_stdout = Some(<<" ", "\n">>)
    /\ result.ok = FALSE
    /\ Pushes = <<>>

\* the paths the status query reported
ReportedPaths ==
    {SubSeq(call.env.status_stdout[i], 4, Len(call.env.status_stdout[i])) :
        i \in {k \in DOMAIN call.env.status_stdout :
                  \E j \in DOMAIN call.env.status_stdout[k] :
                      call.env.status_stdout[k][j] \notin Whitespace}}
\* the exclusion list in effect: the caller's, or the defaults
PatternsInEffect ==
    IF call.exclude_patterns = None THEN Range(DefaultExcludePatterns)
    ELSE Range(Val(call.exclude_patterns))
\* some pattern matches the path, repo-relative or joined to the repo root
MatchesEitherForm(path) ==
    \E pat \in PatternsInEffect :
        FnMatch(path, pat) \/ FnMatch(JoinPath(call.repo_dir, path), pat)
\* the paths handed to `git add`
AddedPaths == UNION {Range(trace[i].paths) : i \in Events(IsAdd)}

\* C9: in git_add_all, a reported path matching any pattern in effect, in
\* either form, is never passed to `git add`; every reported path matching no
\* pattern is in the filtered set, which is what `git add` receives.
C9_StagingFilter ==
    After("git_add_all") =>
        /\ \A path \in ReportedPaths :
               IF MatchesEitherForm(path)
               THEN path \notin AddedPaths
               ELSE path \in AddedPaths
        /\ AddedPaths \subseteq ReportedPaths

C9_Witness ==
    /\ After("git_add_all")
    /\ call.exclude_patterns = None
    /\ call.repo_dir = <<"/", "r", "e", "p", "o">>
    /\ ReportedPaths = {<<"A", ".", "c", "l", "a", "s", "s">>,
                        <<"s", "r", "c", "/", "A", ".", "j", "a", "v", "a">>}
    /\ AddedPaths = {<<"s", "r", "c", "/", "A", ".", "j", "a", "v", "a">>}

\* C10: git_add_all, when the filtered set is empty, returns at once with an
\* empty staged list and does not run `git add`.
C10_EmptyFilterNoAdd ==
    (After("git_add_all") /\ \A path \in ReportedPaths : MatchesEitherForm(path))
    => /\ result = [ok |-> TRUE, staged |-> <<>>,
                    msg |-> "No files to stage after filtering."]
       /\ Events(IsAdd) = {}
       /\ trace = <<RunEvent(<<"git", "status", "--porcelain">>)>>

C10_Witness ==
    /\ After("git_add_all")
    /\ ReportedPaths # {}
    /\ \A path \in ReportedPaths : MatchesEitherForm(path)
    /\ call.env.staged_stdout # <<>>
    /\ result.staged = <<>>
    /\ Events(IsAdd) = {}

\* every LINE counter of the report has integer missed and covered
WellFormed(report) ==
    \A i \in DOMAIN FindAllCounters(report) :
        LET c == FindAllCounters(report)[i]
        IN c.type = "LINE" => (c.missed.text = "int" /\ c.covered.text = "int")
\* the classes of the report, in document order
RECURSIVE ClassesOf(_)
ClassesOf(pkgs) ==
    IF pkgs = <<>> THEN <<>>
    ELSE [i \in DOMAIN Head(pkgs).classes |->
             [package |-> Head(pkgs).name, cls |-> Head(pkgs).classes[i]]]
         \o ClassesOf(Tail(pkgs))
\* the number of lines of the report: missed + covered over its classes
TotalLines(report) ==
    SumLine(ClassCounters(report.packages[1].classes), "missed")
    + SumLine(ClassCounters(report.packages[1].classes), "covered")

\* C13: for a valid report with LINE counters at report, package and class
\* granularity, the aggregate satisfies covered + missed = the number of lines
\* in the report.
C13_TotalsMatchReport ==
    (/\ After("_compute_jacoco_coverage")
     /\ call.env.report.kind = "xml" /\ WellFormed(call.env.report)
     /\ call.env.report.counters # <<>>)
    => /\ result.ok
       /\ result.covered + result.missed = TotalLines(call.env.report)

\* The double x is the quotient a / b but for the rounding of float
\* arithmetic: x * b and a differ by less than b / 2^26.
DoubleNear(x, a, b) ==
    LET xb == MulCarry(x.mant, b, 0)
        unit == Pow2(x.exp - FractionBits)
    IN \/ xb[1] = a * unit /\ xb[2] = 0 /\ xb[3] = 0
       \/ xb[1] = a * unit - 1 /\ xb[2] = LimbBase - 1 /\ xb[3] = LimbBase - 1

\* C14: when the summed LINE total of a report is zero the aggregate is
\* ok = true with percent = 0.0; otherwise percent = covered / (covered +
\* missed) * 100.
C14_PercentZeroWhenEmpty ==
    (/\ After("_compute_jacoco_coverage")
     /\ call.env.report.kind = "xml" /\ WellFormed(call.env.report))
    => LET cs == FindAllCounters(call.env.report)
           total == SumLine(cs, "missed") + SumLine(cs, "covered")
       IN /\ result.ok
          /\ result.covered = SumLine(cs, "covered")
          /\ result.missed = SumLine(cs, "missed")
          /\ IF total = 0
             THEN result.percent = DoubleZero
             ELSE DoubleNear(result.percent, 100 * result.covered, total)

C14_Witness ==
    /\ After("_compute_jacoco_coverage")
    /\ call.env.report.kind = "xml"
    /\ Len(call.env.report.packages[1].classes) = 2
    /\ call.env.report.counters = <<LineCounter(0, 0)>>
    /\ result = [ok |-> TRUE, percent |-> DoubleZero, covered |-> 0, missed |-> 0]

\* analyze_coverage located the report file
Located ==
    /\ call.env.report.kind # "absent"
    /\ call.env.at = (IF call.jacoco_xml \in {None, Some("")} THEN SitePath
                      ELSE Val(call.jacoco_xml))
\* the classes whose LINE counter has missed > 0, by position in the report
UncoveredIdx ==
    LET cl == ClassesOf(call.env.report.packages)
    IN {i \in DOMAIN cl :
           \E k \in DOMAIN cl[i].cls.counters :
               /\ cl[i].cls.counters[k].type = "LINE"
               /\ cl[i].cls.counters[k].missed.text = "int"
               /\ cl[i].cls.counters[k].covered.text = "int"
               /\ cl[i].cls.counters[k].missed.val > 0}
\* the k-th unit is the k-th such class, with its recommendation
UnitsAre(idx) ==
    LET cl == ClassesOf(call.env.report.packages)
        un == result.report.uncovered
        rec == result.report.recommendations
    IN /\ Len(un) = Cardinality(idx)
       /\ Len(rec) = Len(un)
       /\ \A k \in DOMAIN un :
              \E i \in idx :
                  /\ Cardinality({j \in idx : j < i}) = k - 1
                  /\ un[k].package = cl[i].package
                  /\ un[k].class = cl[i].cls.name
                  /\ \E c \in Range(cl[i].cls.counters) :
                         /\ c.type = "LINE"
                         /\ un[k].missed = c.missed.val
                         /\ un[k].covered = c.covered.val
                  /\ rec[k] = "Increase tests for " \o cl[i].package \o "." \o cl[i].cls.name
                                  \o " (missed lines: " \o ToString(un[k].missed) \o ")"

\* C15: analyze_coverage returns one unit for each class whose LINE counter
\* has missed > 0 and none for a class with missed = 0, in report order, with
\* one recommendation "Increase tests for {package}.{class} (missed lines:
\* {missed})" per unit in the same order (reports whose counters are
\* CoverageCounters, missed and covered integers).
C15_GapAnalysis ==
    (/\ After("analyze_coverage") /\ Located
     /\ call.env.report.kind = "xml" /\ WellFormed(call.env.report))
    => /\ ~HasRaised(result)
       /\ result.ok
       /\ result.report.file = call.env.at
       /\ UnitsAre(UncoveredIdx)

C15_Witness ==
    /\ After("analyze_coverage") /\ Located
    /\ call.env.report.kind = "xml"
    /\ Len(call.env.report.packages[1].classes) = 2
    /\ \E c \in Range(call.env.report.packages[1].classes[1].counters) :
           c = LineCounter(0, 2)
    /\ ~HasRaised(result)
    /\ result.ok
    /\ result.report.uncovered =
           <<[package |-> "com/example", class |-> "com/example/Bar",
              missed |-> 2, covered |-> 1]>>
    /\ result.report.recommendations =
           <<"Increase tests for com/example.com/example/Bar (missed lines: 2)">>

\* C16: when the located report cannot be decoded at the top level,
\* analyze_coverage returns a failure result (ok = false, with a message) and
\* does not end by an uncaught exception.
C16_MalformedReportFails ==
    (After("analyze_coverage") /\ Located /\ ParseError(call.env.report) # "")
    => /\ ~HasRaised(result)
       /\ result.ok = FALSE
       /\ "msg" \in DOMAIN result

\* C17: a class entry whose LINE counter lacks an integer missed or covered
\* is skipped: the analysis completes with ok = true and the units of the
\* well-formed classes.
C17_MalformedClassSkipped ==
    (/\ After("analyze_coverage") /\ Located
     /\ call.env.report.kind = "xml" /\ ~WellFormed(call.env.report))
    => /\ ~HasRaised(result)
       /\ result.ok
       /\ UnitsAre(UncoveredIdx)

(***************************************************************************)
(* generate_tests                                                          *)
(***************************************************************************)
\* A step of the model that is a whole call of generate_tests.
GenerateStep == pc = "idle" /\ pc' = "returned" /\ call'.tool = "generate_tests"

\* The source files that yield at least one public method.
MethodFiles ==
    {p \in FilesUnder(fs, SourceRoot) :
        JavaName(p[Len(p)]) /\ fs[p].utf8 /\ fs[p].methods # <<>>}

\* the files under the test root of the call, before and after the step
RootBefore == FilesUnder(fs, TestRoot(call'.out_dir))
RootAfter == FilesUnder(fs', TestRoot(call'.out_dir))

\* The call of the step is a second run: the call before it was a run of
\* generate_tests with the same test root that returned its count, and the
\* source tree is unchanged, file for file what it was when that run
\* returned.
SecondRun ==
    /\ GenerateStep
    /\ ~IsNone(lastRun)
    /\ Val(lastRun).test_root = Resolve(TestRoot(call'.out_dir))
    /\ SourceTree(fs) = Val(lastRun).tree

\* C11: a second run of generate_tests, the source tree unchanged since the
\* first, creates no file, returns created_tests = 0 and leaves the set of
\* files under the test root as the first run left it.
C11_SecondRunCreatesNothing ==
    [][SecondRun =>
          /\ ~HasRaised(result')
          /\ result'.ok
          /\ result'.created_tests = 0
          /\ RootAfter = RootBefore]_vars

\* C12: every file that exists before a call of generate_tests (under the
\* test root of the call or anywhere else on the disk, hand-written and
\* hand-edited files included) is there after it with the same contents,
\* whatever the source tree holds and however the call ends.
C12_NeverOverwrites ==
    [][GenerateStep =>
          /\ \A f \in RootBefore : f \in RootAfter /\ fs'[f] = fs[f]
          /\ \A f \in DOMAIN fs : f \in DOMAIN fs' /\ fs'[f] = fs[f]]_vars

\* A run has returned its count with a hand-written file still in place at
\* the target of a source file that has public methods, while creating the
\* skeleton of another.
C12_Witness ==
    /\ pc = "returned"
    /\ call.tool = "generate_tests"
    /\ ~HasRaised(result)
    /\ result.ok
    /\ result.created_tests > 0
    /\ \E f \in MethodFiles :
         LET test_file == TestFilePath(TestRoot(call.out_dir), f, fs[f])
         IN Exists(fs, test_file) /\ fs[Resolve(test_file)] = HandWritten

\* C20: from a test root that holds no file, generate_tests returns
\* created_tests equal to the number of source files that yield at least one
\* public method and leaves one skeleton for each under the test root, also
\* when several files share a class name and package declaration.
C20_OnePerSourceFile ==
    [][(GenerateStep /\ Exists(fs, SourceRoot) /\ RootBefore = {}) =>
          /\ ~HasRaised(result')
          /\ result'.ok
          /\ result'.created_tests = Cardinality(MethodFiles)
          /\ Cardinality(RootAfter) = Cardinality(MethodFiles)]_vars

(***************************************************************************)
(* configure_jacoco                                                        *)
(***************************************************************************)
\* The step at which configure_jacoco starts to write a pom.xml that differs
\* from the text it read.
ModifyingWrite ==
    pc = "pom_open" /\ pc' = "pom_write" /\ InsertJacoco(call.text) # call.text

\* the whole contents of a pom.xml, as they are on disk or as read_text
\* returns them
WholePoms == PomFiles \cup {ReadText(t) : t \in PomFiles}

\* C18: when configure_jacoco starts to write a modified pom.xml, pom.xml.bak
\* exists and holds a pre-modification copy (the whole text of a pom.xml,
\* without the plugin); and a call that finds pom.xml.bak in place never
\* changes it.
C18_BackupBeforeModify ==
    [][/\ ModifyingWrite =>
            /\ ~IsNone(bak)
            /\ Val(bak).kind = "file"
            /\ Val(bak).bytes \in WholePoms
            /\ ~HasJacoco(Val(bak).bytes)
       /\ (~IsNone(bak) /\ pc \notin {"backup_open", "backup_write"}) => bak' = bak]_vars

\* C19: after a crash between two filesystem steps of configure_jacoco,
\* pom.xml exists and holds the complete original or the complete updated
\* contents.
C19_CrashKeepsPom ==
    pc = "crashed" =>
        /\ ~IsNone(pom)
        /\ Val(pom) \in {FileOf(call.bytes), FileOf(InsertJacoco(call.text))}

====
